---------------------------- MODULE Spec2Model ----------------------------
(***************************************************************************)
(* A model of the two-layer chroma-key compositor: the App component's     *)
(* layer and Transform state (src/App.tsx), the PreviewCanvas pointer      *)
(* controller and chroma-key loop (src/unnamed/part_000), the percent and  *)
(* size controls (src/components/VideoControls.tsx) and the recording      *)
(* pipeline (src/App.tsx).                                                  *)
(*                                                                         *)
(* Numbers.  JavaScript numbers are modelled as exact rationals.  Every    *)
(* pixel quantity that the code can leave fractional (Transform.x and .y,  *)
(* pointer positions) is held in HALF-PIXEL units: the integer v stands    *)
(* for v/2 pixels.  width, height and size are held in whole units (the    *)
(* code only ever stores Math.round(..) or parseInt(..) there).  An aspect *)
(* ratio w/h is the reduced fraction <<n, d>>.  A percent is held in       *)
(* tenths of a percent (the controls show one decimal).                    *)
(*                                                                         *)
(* React.  A handler and the effects its state change triggers are one     *)
(* action: the state a handler sets, the re-render, and the effects whose  *)
(* dependencies changed.  null is the empty tuple << >>.                   *)
(***************************************************************************)
EXTENDS Integers, Sequences, FiniteSets, TLC

VARIABLES
  bottomLayerFile,        \* << >> or <<file>>                (App.tsx:20)
  topLayerFile,           \* << >> or <<file>>                (App.tsx:21)
  bottomLayerUrl,         \* 0 (null) or an object URL       (App.tsx:23,57)
  topLayerUrl,            \* 0 (null) or an object URL       (App.tsx:24,58)
  bottomLayerType,        \* "none" | "image" | "video"       (App.tsx:26)
  topLayerType,           \* "none" | "image" | "video"       (App.tsx:27)
  bottomLayerDimensions,  \* << >> or <<width, height>>       (App.tsx:29)
  topLayerAspectRatio,    \* << >> or <<n, d>>, n/d reduced   (App.tsx:30)
  videoTransform,         \* [x, y, width, height, size]      (App.tsx:32)
  objectUrls,             \* the browser's object URL registry: for each
                          \* layer, how often its k-th URL was revoked
  lastAlert,              \* the alert() the last handler showed, or ""
  isDragging,             \* PreviewCanvas state              (part_000:31)
  isHovering,             \* PreviewCanvas state              (part_000:32)
  defaultPrevented,       \* the handler of the pointer event handled last
                          \* called e.preventDefault()   (part_000:101, 126)
  dragStartRef,           \* << >> or <<startX, startY, initialTransformX,
                          \*           initialTransformY>>    (part_000:33)
  dragCount,              \* drags started so far (bounds the exploration)
  chromaKeySettings,      \* [color, hexColor, tolerance]    (App.tsx:40)
  topFrame,               \* the top element's current frame as the flat
                          \* RGBA bytes getImageData returns; << >>: none
  canvas,                 \* what render last drew of the top layer:
                          \* << >> or [data, at]        (part_000:240-248)
  isRecording,            \* App state                       (App.tsx:46)
  mediaRecorderRef,       \* 0 (null) or a recorder          (App.tsx:54)
  recordedChunksRef,      \* the chunk array                 (App.tsx:55)
  recorders,              \* the MediaRecorders made so far, with what
                          \* their handlers close over
  muted,                  \* the muted flag of each layer's hidden <video>
  audioContexts,          \* the AudioContexts made so far: their state
  sourceOf,               \* per layer's <video>: the AudioContext its
                          \* MediaElementSource belongs to, or 0
  downloads,              \* the files the page has made the browser save
  browser,                \* [isSafari, supported]: navigator.userAgent's
                          \* family and what isTypeSupported accepts
  animationFrame,         \* a run of render is due: the frame requested
                          \* last is pending             (part_000:179, 264)
  framesDrawn,            \* runs of render so far
  consoleErrors,          \* console.error calls of render so far
  pendingFrames,          \* runs of render that are due and not cancelled
                          \*                            (part_000:264, 269)
  loopClosure,            \* << >> or what the render of the running loop
                          \* closes over: [videoTransform,
                          \* chromaKeySettings, isRecording]
                          \*                        (part_000:180, 272)
  paused,                 \* the paused flag of each layer's element
  forcedPlays,            \* play() calls render has made    (part_000:185)
  listeners,              \* the window's listeners per event kind: what
                          \* each registered handler closes over
                          \*                            (part_000:145-149)
  currentPage,            \* App state                       (App.tsx:18)
  elementProps,           \* the bottomLayerElement and topLayerElement
                          \* props of the last App render are the
                          \* mounted elements, not null (App.tsx:324-325)
  reloadDue,              \* the layers whose hidden element was mounted
                          \* anew and has yet to fire its load event
  apiKey,                 \* AIVideoGenPage state   (AIVideoGenPage.tsx:6)
  prompt,                 \* AIVideoGenPage state                     (:8)
  status,                 \* AIVideoGenPage state                     (:9)
  error,                  \* AIVideoGenPage state, << >>: null       (:10)
  generatedVideoUrl,      \* AIVideoGenPage state, 0: null           (:11)
  operation,              \* AIVideoGenPage state, << >>: null       (:12)
  localStorage,           \* the item user_gemini_api_key, "": none
  submits,                \* the handleGenerate calls made so far: where
                          \* each one stands
  pollChains              \* the poll chains started so far: where each
                          \* one stands and its isCancelled    (:71-119)

layerVars == <<bottomLayerFile, topLayerFile, bottomLayerUrl, topLayerUrl,
               bottomLayerType, topLayerType, bottomLayerDimensions,
               topLayerAspectRatio, objectUrls>>
appVars == <<bottomLayerFile, topLayerFile, bottomLayerUrl, topLayerUrl,
             bottomLayerType, topLayerType, bottomLayerDimensions,
             topLayerAspectRatio, videoTransform, objectUrls, lastAlert>>
pointerVars == <<isDragging, isHovering, dragStartRef, dragCount, defaultPrevented>>
sceneVars == <<layerVars, videoTransform>>
keyVars == <<chromaKeySettings, topFrame, canvas>>
recVars == <<isRecording, mediaRecorderRef, recordedChunksRef, recorders, muted,
             audioContexts, sourceOf, downloads, browser>>
loopVars == <<animationFrame, framesDrawn, consoleErrors, pendingFrames,
              loopClosure>>
listenerVars == <<listeners>>
pageVars == <<currentPage, elementProps, reloadDue>>
genVars == <<apiKey, prompt, status, error, generatedVideoUrl, operation,
             localStorage, submits, pollChains>>
playVars == <<paused, forcedPlays>>
restVars == <<playVars, pageVars, genVars>>
otherVars == <<playVars, listenerVars, pageVars, genVars>>
vars == <<appVars, pointerVars, keyVars, recVars, loopVars, otherVars>>

---------------------------------------------------------------------------
(* Bounds of the exploration. *)

\* At most this many object URLs are created (uploads accepted).
MaxUrls == 4
\* At most this many drags are started.
MaxDrags == 1
\* At most this many recordings are started.
MaxSessions == 2
\* At most this many blobs are handed out by a recorder before its last one.
MaxChunks == 1
\* At most this many runs of render are followed.
MaxFrames == 3
\* Poll chains started on the generative-video page.
MaxPolls == 3
\* Submits made on the generative-video page while it stays mounted.
MaxSubmits == 2

---------------------------------------------------------------------------
(* Arithmetic. *)

Abs(n) == IF n < 0 THEN -n ELSE n

RECURSIVE Gcd(_, _)
Gcd(a, b) == IF b = 0 THEN a ELSE Gcd(b, a % b)

\* The number w / h as a reduced fraction (w, h > 0).
Ratio(w, h) == <<w \div Gcd(w, h), h \div Gcd(w, h)>>

\* A mutant of MathRound: truncation towards minus infinity (Math.floor).
MathFloor(n, d) == n \div d

\* Math.round(n / d) for d > 0: the nearest integer, a tie going up.
MathRound(n, d) == (2 * n + d) \div (2 * d)

---------------------------------------------------------------------------
(* Files the user can pick.  A file has a declared MIME type and the       *)
(* intrinsic size its decoded element reports (0 x 0: nothing decodable).  *)

File(major, sub, w, h) == [mime |-> <<major, sub>>, w |-> w, h |-> h]

\* The files of the preview session, and those of the loading scenarios.
Files ==
  { File("image", "png", 5, 4),
    File("video", "webm", 3, 4) }

Background800x600 == File("image", "jpeg", 800, 600)
Foreground400x400 == File("video", "mp4", 400, 400)
Background100x100 == File("image", "jpeg", 100, 100)

LoadFiles ==
  Files \cup { Background800x600, Foreground400x400,
               File("image", "svg+xml", 0, 0),
               File("text", "plain", 0, 0) }

Layers == {"bottom", "top"}

\* file.type.startsWith(prefix + '/')
StartsWith(file, prefix) == file.mime[1] = prefix

\* A mutant of FileTypeOf: whatever is not an image is taken as a video.
FileTypeOfLax(file) ==
  IF StartsWith(file, "image") THEN "image" ELSE "video"

\* App.tsx:61
FileTypeOf(file) ==
  IF StartsWith(file, "image") THEN "image"
  ELSE IF StartsWith(file, "video") THEN "video" ELSE "none"

InitialTransform == [x |-> 0, y |-> 0, width |-> 0, height |-> 0, size |-> 100]

\* PreviewCanvas is rendered (App.tsx:322, 385).
isPreviewReady ==
  /\ bottomLayerUrl # 0 /\ topLayerUrl # 0
  /\ topLayerAspectRatio # << >> /\ bottomLayerDimensions # << >>
  /\ bottomLayerDimensions[1] > 0

\* PreviewCanvas is rendered (App.tsx:332, 385).
previewMounted == currentPage = "bk-ground-swap" /\ isPreviewReady

\* VideoControls.tsx:42
controlsEnabled == bottomLayerDimensions # << >> /\ topLayerAspectRatio # << >>

---------------------------------------------------------------------------
(* Geometry. *)

\* A mutant of ResetTransform: the baseline width is taken from the surface
\* height.
ResetTransformByHeight(dims, ar) ==
  [ size   |-> 100,
    width  |-> MathRound(dims[2], 2),
    height |-> MathRound(dims[2] * ar[2], 2 * ar[1]),
    x      |-> 2 * MathRound(dims[1], 4),
    y      |-> 2 * MathRound(2 * dims[2] * ar[1] - dims[2] * ar[2], 4 * ar[1]) ]

\* The transform reset effect's value (App.tsx:141-153), for surface
\* dimensions dims = <<W, H>> and aspect ratio ar = <<n, d>>:
\*   newWidth = W * 0.5, newHeight = newWidth / (n / d) = W * d / (2 * n).
ResetTransform(dims, ar) ==
  [ size   |-> 100,
    width  |-> MathRound(dims[1], 2),
    height |-> MathRound(dims[1] * ar[2], 2 * ar[1]),
    x      |-> 2 * MathRound(2 * dims[1] - dims[1], 4),
    y      |-> 2 * MathRound(2 * dims[2] * ar[1] - dims[1] * ar[2], 4 * ar[1]) ]

\* A mutant of AfterResetEffect: a Transform the user has set is kept.
AfterResetEffectKeep(prev, dims, ar, changed) ==
  IF changed /\ ar # << >> /\ dims # << >> /\ prev = InitialTransform
    THEN ResetTransform(dims, ar)
    ELSE prev

\* The transform after the reset effect has had its chance to run: it runs
\* when one of its dependencies changed, and acts when both are non-null.
AfterResetEffect(prev, dims, ar, changed) ==
  IF changed /\ ar # << >> /\ dims # << >> THEN ResetTransform(dims, ar) ELSE prev

\* A mutant of Merge: the fields the partial leaves out are reset.
MergeOverInitial(prev, partial) ==
  [k \in DOMAIN prev |->
     IF k \in DOMAIN partial THEN partial[k] ELSE InitialTransform[k]]

\* { ...prev, ...partial }: partial is a function from some field names.
Merge(prev, partial) ==
  [k \in DOMAIN prev |-> IF k \in DOMAIN partial THEN partial[k] ELSE prev[k]]

\* A mutant of ApplyUpdate: the new size scales the current width and height
\* instead of the 100% baseline.
ApplyUpdateRelative(prev, partial, dims, ar) ==
  LET updated == Merge(prev, partial) IN
  IF "size" \in DOMAIN partial
    THEN [updated EXCEPT
            !.width  = MathRound(prev.width * partial.size, 100),
            !.height = MathRound(prev.width * partial.size * ar[2], 100 * ar[1])]
    ELSE updated

\* A mutant of ApplyUpdate: the aspect ratio is applied upside down.
ApplyUpdateInverted(prev, partial, dims, ar) ==
  LET updated == Merge(prev, partial) IN
  IF "size" \in DOMAIN partial
    THEN [updated EXCEPT
            !.width  = MathRound(dims[1] * partial.size, 200),
            !.height = MathRound(dims[1] * partial.size * ar[1], 200 * ar[2])]
    ELSE updated

\* The updater of handleTransformChange (App.tsx:160-171):
\*   baseWidth = W * 0.5, newWidth = baseWidth * (size / 100).
ApplyUpdate(prev, partial, dims, ar) ==
  LET updated == Merge(prev, partial) IN
  IF "size" \in DOMAIN partial
    THEN [updated EXCEPT
            !.width  = MathRound(dims[1] * partial.size, 200),
            !.height = MathRound(dims[1] * partial.size * ar[2], 200 * ar[1])]
    ELSE updated

\* handleTransformChange (App.tsx:157-172), as the next Transform.
TransformChange(partial) ==
  IF topLayerAspectRatio = << >> \/ bottomLayerDimensions = << >>
    THEN videoTransform
    ELSE ApplyUpdate(videoTransform, partial, bottomLayerDimensions,
                     topLayerAspectRatio)

\* handleTransformChange (App.tsx:157-172) called with a partial.
handleTransformChange(partial) ==
  /\ videoTransform' = TransformChange(partial)
  /\ UNCHANGED <<bottomLayerFile, topLayerFile, bottomLayerUrl, topLayerUrl,
                 bottomLayerType, topLayerType, bottomLayerDimensions,
                 topLayerAspectRatio, objectUrls, pointerVars>>
  /\ lastAlert' = ""

---------------------------------------------------------------------------
(* The App component: uploads and load events. *)

\* An object URL is a fresh string; the k-th one created for a layer is
\* named k in that layer's part of the registry (a URL made for one layer
\* is never stored in the other's state).
UrlsCreated == Len(objectUrls.bottom) + Len(objectUrls.top)

\* URL.createObjectURL for a file of the layer: a fresh URL, revoked 0 times.
CreateObjectURL(reg, layer) == [reg EXCEPT ![layer] = Append(@, 0)]

\* A mutant of RevokeObjectURL: nothing is released.
RevokeNothing(reg, layer, url) == reg

\* URL.revokeObjectURL(url) for a URL of the layer.
RevokeObjectURL(reg, layer, url) == [reg EXCEPT ![layer][url] = @ + 1]

UnsupportedFileType == "Unsupported file type. Please upload an image or video."

\* PreviewCanvas leaves the tree: its state and its ref are gone, and the
\* next mount starts from useState(false) / useRef(null).
UnmountPreview ==
  /\ isDragging' = FALSE
  /\ isHovering' = FALSE
  /\ dragStartRef' = << >>
  /\ defaultPrevented' = FALSE
  /\ UNCHANGED dragCount

\* App.tsx:60-84.  Setting the layer's dimensions (aspect ratio) to null
\* makes isPreviewReady false, so PreviewCanvas is unmounted; the reset
\* effect runs and finds a null dependency.
handleFileUpload(file, layer) ==
  LET fileType == FileTypeOf(file) IN
  IF fileType = "none"
    THEN /\ lastAlert' = UnsupportedFileType
         /\ UNCHANGED <<bottomLayerFile, topLayerFile, bottomLayerUrl, topLayerUrl,
                        bottomLayerType, topLayerType, bottomLayerDimensions,
                        topLayerAspectRatio, videoTransform, objectUrls, pointerVars>>
    ELSE
      /\ UrlsCreated < MaxUrls
      /\ LET created == CreateObjectURL(objectUrls, layer)
             newUrl == Len(created[layer])
         IN IF layer = "bottom"
              THEN /\ objectUrls' = IF bottomLayerUrl # 0
                                      THEN RevokeObjectURL(created, "bottom",
                                                           bottomLayerUrl)
                                      ELSE created
                   /\ bottomLayerUrl' = newUrl
                   /\ bottomLayerFile' = <<file>>
                   /\ bottomLayerType' = fileType
                   /\ bottomLayerDimensions' = << >>
                   /\ UNCHANGED <<topLayerFile, topLayerUrl, topLayerType,
                                  topLayerAspectRatio>>
              ELSE /\ objectUrls' = IF topLayerUrl # 0
                                      THEN RevokeObjectURL(created, "top", topLayerUrl)
                                      ELSE created
                   /\ topLayerUrl' = newUrl
                   /\ topLayerFile' = <<file>>
                   /\ topLayerType' = fileType
                   /\ topLayerAspectRatio' = << >>
                   /\ UNCHANGED <<bottomLayerFile, bottomLayerUrl, bottomLayerType,
                                  bottomLayerDimensions>>
      /\ UnmountPreview
      /\ lastAlert' = ""
      /\ UNCHANGED videoTransform

\* App.tsx:100-114 with the reset effect (App.tsx:139-155).  The element
\* fires its load event once per source; it reports the file's intrinsic
\* size as naturalWidth/Height or videoWidth/Height.
handleBottomLayerLoad ==
  /\ bottomLayerUrl # 0
  /\ bottomLayerDimensions = << >>
  /\ LET el == bottomLayerFile[1]
         loaded == el.w > 0 /\ el.h > 0
         dims == IF loaded THEN <<el.w, el.h>> ELSE << >>
     IN /\ bottomLayerDimensions' = dims
        /\ videoTransform' = AfterResetEffect(videoTransform, dims,
                                              topLayerAspectRatio, loaded)
  /\ UNCHANGED <<bottomLayerFile, topLayerFile, bottomLayerUrl, topLayerUrl,
                 bottomLayerType, topLayerType, topLayerAspectRatio, objectUrls,
                 pointerVars>>
  /\ lastAlert' = ""

\* App.tsx:116-136 with the reset effect (App.tsx:139-155).
handleTopLayerLoad ==
  /\ topLayerUrl # 0
  /\ topLayerAspectRatio = << >>
  /\ LET el == topLayerFile[1]
         loaded == el.w > 0 /\ el.h > 0
         aspectRatio == IF loaded THEN Ratio(el.w, el.h) ELSE << >>
     IN /\ topLayerAspectRatio' = aspectRatio
        /\ videoTransform' = AfterResetEffect(videoTransform, bottomLayerDimensions,
                                              aspectRatio, loaded)
  /\ UNCHANGED <<bottomLayerFile, topLayerFile, bottomLayerUrl, topLayerUrl,
                 bottomLayerType, topLayerType, bottomLayerDimensions, objectUrls,
                 pointerVars>>
  /\ lastAlert' = ""

---------------------------------------------------------------------------
(* VideoControls: the size slider and the percent inputs. *)

\* VideoControls.tsx:112-114.  A disabled slider sends no change event.
handleSizeChange(s) ==
  /\ controlsEnabled
  /\ videoTransform' = TransformChange([f \in {"size"} |-> s])
  /\ UNCHANGED <<bottomLayerFile, topLayerFile, bottomLayerUrl, topLayerUrl,
                 bottomLayerType, topLayerType, bottomLayerDimensions,
                 topLayerAspectRatio, objectUrls, pointerVars>>
  /\ lastAlert' = ""

\* A mutant of PercentToPixels: the offset is truncated (Math.floor).
PercentToPixelsFloor(p, movable) ==
  IF movable <= 0 THEN movable ELSE 2 * MathFloor(p * movable, 1000)

\* A mutant of PercentToPixels: the percent is clamped to [0, 100] first.
PercentToPixelsClamped(p, movable) ==
  IF movable <= 0 THEN movable
  ELSE 2 * MathRound((IF p < 0 THEN 0 ELSE IF p > 1000 THEN 1000 ELSE p) * movable,
                     1000)

\* VideoControls.tsx:98, 103: the offset (half-pixels) for p tenths of a
\* percent of the movable range.  movable / 2 pixels is movable half-pixels.
PercentToPixels(p, movable) ==
  IF movable <= 0 THEN movable ELSE 2 * MathRound(p * movable, 1000)

\* VideoControls.tsx:80-110.  value is << >> when parseFloat gives NaN and
\* <<p>> for p tenths of a percent.
handlePercentageInputChange(name, value) ==
  /\ controlsEnabled
  /\ IF value = << >>
       THEN UNCHANGED videoTransform
       ELSE LET movableWidth  == bottomLayerDimensions[1] - videoTransform.width
                movableHeight == bottomLayerDimensions[2] - videoTransform.height
            IN videoTransform' =
                 IF name = "lr_pos_percent"
                   THEN TransformChange([f \in {"x"} |->
                                           PercentToPixels(value[1], movableWidth)])
                   ELSE TransformChange([f \in {"y"} |->
                                           PercentToPixels(value[1], movableHeight)])
  /\ UNCHANGED <<bottomLayerFile, topLayerFile, bottomLayerUrl, topLayerUrl,
                 bottomLayerType, topLayerType, bottomLayerDimensions,
                 topLayerAspectRatio, objectUrls, pointerVars>>
  /\ lastAlert' = ""

\* A mutant of PixelsToPercent: the percent is not clamped.
PixelsToPercentUnclamped(offset, movable) ==
  IF movable <= 0 THEN 500 ELSE MathRound(500 * offset, movable)

\* VideoControls.tsx:62-69 with toFixed(1) of line 72-73: the percent, in
\* tenths, shown for an offset (half-pixels) on an axis whose movable range
\* is movable pixels.  (offset / 2) / movable * 100 percent is
\* 500 * offset / movable tenths; the clamp to [0, 100] comes before the
\* rounding to one decimal.
PixelsToPercent(offset, movable) ==
  IF movable <= 0 THEN 500
  ELSE IF offset <= 0 THEN 0
  ELSE IF offset >= 2 * movable THEN 1000
  ELSE MathRound(500 * offset, movable)

\* VideoControls.tsx:44-77: the strings the sync effect sets while no
\* percent input has the focus.  << >> is 'N/A', <<p>> shows p tenths.
percentValues ==
  IF ~controlsEnabled
    THEN [lr_pos_percent |-> << >>, ud_pos_percent |-> << >>]
    ELSE [lr_pos_percent |->
            <<PixelsToPercent(videoTransform.x,
                              bottomLayerDimensions[1] - videoTransform.width)>>,
          ud_pos_percent |->
            <<PixelsToPercent(videoTransform.y,
                              bottomLayerDimensions[2] - videoTransform.height)>>]

---------------------------------------------------------------------------
(* PreviewCanvas: the pointer controller.  Positions are in half-pixels. *)

\* canvas.getBoundingClientRect() for a canvas of backing size dims: shown
\* at its backing size, or not laid out at all ...
Rects(dims) ==
  { [left |-> 0, top |-> 0, width |-> dims[1], height |-> dims[2]],
    [left |-> 0, top |-> 0, width |-> 0, height |-> 0] }

\* ... or, besides, shown at twice its backing size (a client pixel is then
\* half a surface pixel).
ScaledRects(dims) ==
  Rects(dims) \cup
    { [left |-> 0, top |-> 0, width |-> 2 * dims[1], height |-> 2 * dims[2]] }

\* part_000:45-55.  canvas.width and .height are bottomLayerDimensions
\* (part_000:171-172).  << >> is null.  The rectangles of Rects make
\* 2 * (client - left) * scale an integer, so \div is exact here.
getCanvasRelativePos(dims, rect, client) ==
  IF rect.width = 0 \/ rect.height = 0 THEN << >>
  ELSE << (2 * (client[1] - rect.left) * dims[1]) \div rect.width,
          (2 * (client[2] - rect.top) * dims[2]) \div rect.height >>

\* A mutant of isPointInTopLayer: the far edges are excluded.
isPointInTopLayerHalfOpen(t, pos) ==
  /\ pos[1] >= t.x /\ pos[1] < t.x + 2 * t.width
  /\ pos[2] >= t.y /\ pos[2] < t.y + 2 * t.height

\* part_000:57-60, for the Transform t the handler closes over.
isPointInTopLayer(t, pos) ==
  /\ pos[1] >= t.x /\ pos[1] <= t.x + 2 * t.width
  /\ pos[2] >= t.y /\ pos[2] <= t.y + 2 * t.height

\* The event kinds PreviewCanvas listens to on the window (part_000:145-149).
EventKinds == {"mousemove", "mouseup", "touchmove", "touchend", "touchcancel"}

NoListeners == [k \in EventKinds |-> << >>]

\* What the handlers made by the render of the current state close over
\* (the dependency lists part_000:74, 86, 93, 117, 136); handlers made by
\* two renders are the same functions if and only if these values are.
HandlerClosure ==
  [isDragging |-> isDragging, videoTransform |-> videoTransform,
   topLayerElement |-> elementProps]

\* A mutant of RemoveListeners: the cleanup removes nothing.
RemoveNoListeners(ls, h) == ls

\* The effect's cleanup (part_000:151-157): removeEventListener for each
\* kind with the handler the effect had added.
RemoveListeners(ls, h) ==
  [k \in EventKinds |-> SelectSeq(ls[k], LAMBDA x : x # h)]

\* The effect's body (part_000:141-149): addEventListener for each kind; a
\* listener that is registered already is not added again.
AddListeners(ls, h) ==
  [k \in EventKinds |->
     IF \E i \in 1..Len(ls[k]) : ls[k][i] = h THEN ls[k] ELSE Append(ls[k], h)]

\* The handlers the effect added last.
RegisteredBy(ls) == ls["mouseup"][Len(ls["mouseup"])]

\* The listeners once the listener effect (part_000:139-158) has run for
\* the render that made the handlers h, mounted telling whether
\* PreviewCanvas is still rendered: with unchanged handlers the effect does
\* not run; otherwise its cleanup runs and, if mounted, its body.
ListenerEffect(ls, mounted, h) ==
  LET registered == Len(ls["mouseup"]) > 0 IN
  IF mounted /\ registered /\ RegisteredBy(ls) = h THEN ls
  ELSE LET cleaned == IF registered THEN RemoveListeners(ls, RegisteredBy(ls))
                      ELSE ls
       IN IF mounted THEN AddListeners(cleaned, h) ELSE cleaned

\* A mutant of DragStarts: every valid position starts a drag.
DragStartsAnywhere(pos) == pos # << >>

\* handleDragStart's result (part_000:62-74).  The handler is made anew by
\* every render, so it works on the current Transform and element.
DragStarts(pos) ==
  elementProps /\ pos # << >> /\ isPointInTopLayer(videoTransform, pos)

\* A mutant of DragPosition: the offset is added to the current position
\* instead of the position at the drag's start.
DragPositionFromCurrent(ref, pos) ==
  [f \in {"x", "y"} |->
     IF f = "x" THEN 2 * MathRound(videoTransform.x + pos[1] - ref[1], 2)
                ELSE 2 * MathRound(videoTransform.y + pos[2] - ref[2], 2)]

\* The partial handleDragMove passes on (part_000:78-84).
DragPosition(ref, pos) ==
  [f \in {"x", "y"} |->
     IF f = "x" THEN 2 * MathRound(ref[3] + pos[1] - ref[1], 2)
                ELSE 2 * MathRound(ref[4] + pos[2] - ref[2], 2)]

\* part_000:62-74 as called from a pointer-down at pos.
handleDragStart(pos) ==
  IF DragStarts(pos)
    THEN /\ dragCount < MaxDrags
         /\ isDragging' = TRUE
         /\ dragStartRef' = <<pos[1], pos[2], videoTransform.x, videoTransform.y>>
         /\ dragCount' = dragCount + 1
    ELSE UNCHANGED <<isDragging, dragStartRef, dragCount>>

\* part_000:76-86, as made by the render whose handlers close over h.
handleDragMoveOf(h, pos) ==
  IF h.isDragging /\ dragStartRef # << >> /\ pos # << >>
    THEN videoTransform' = TransformChange(DragPosition(dragStartRef, pos))
    ELSE UNCHANGED videoTransform

\* part_000:76-86, as made by the render of the current state.
handleDragMove(pos) == handleDragMoveOf(HandlerClosure, pos)

\* part_000:96-103.
handleMouseDown(rect, client) ==
  /\ previewMounted
  /\ LET pos == getCanvasRelativePos(bottomLayerDimensions, rect, client) IN
     /\ handleDragStart(pos)
     /\ defaultPrevented' = DragStarts(pos)
  /\ lastAlert' = ""
  /\ UNCHANGED <<layerVars, videoTransform, isHovering>>

\* A mutant of handleMouseMoveOf: the hover does not ask for the element.
handleMouseMoveNoElementCheck(h, rect, client) ==
  /\ previewMounted
  /\ LET pos == getCanvasRelativePos(bottomLayerDimensions, rect, client) IN
     IF h.isDragging
       THEN /\ handleDragMoveOf(h, pos)
            /\ UNCHANGED isHovering
       ELSE /\ isHovering' = /\ pos # << >>
                             /\ isPointInTopLayer(h.videoTransform, pos)
            /\ UNCHANGED videoTransform
  /\ UNCHANGED <<bottomLayerFile, topLayerFile, bottomLayerUrl, topLayerUrl,
                 bottomLayerType, topLayerType, bottomLayerDimensions,
                 topLayerAspectRatio, objectUrls,
                 isDragging, dragStartRef, dragCount>>
  /\ defaultPrevented' = FALSE
  /\ lastAlert' = ""

\* part_000:105-117, as made by the render whose handlers close over h.
handleMouseMoveOf(h, rect, client) ==
  /\ previewMounted
  /\ LET pos == getCanvasRelativePos(bottomLayerDimensions, rect, client) IN
     IF h.isDragging
       THEN /\ handleDragMoveOf(h, pos)
            /\ UNCHANGED isHovering
       ELSE /\ isHovering' = /\ h.topLayerElement
                             /\ pos # << >>
                             /\ isPointInTopLayer(h.videoTransform, pos)
            /\ UNCHANGED videoTransform
  /\ UNCHANGED <<bottomLayerFile, topLayerFile, bottomLayerUrl, topLayerUrl,
                 bottomLayerType, topLayerType, bottomLayerDimensions,
                 topLayerAspectRatio, objectUrls,
                 isDragging, dragStartRef, dragCount>>
  /\ defaultPrevented' = FALSE
  /\ lastAlert' = ""

\* part_000:105-117, as made by the render of the current state.
handleMouseMove(rect, client) == handleMouseMoveOf(HandlerClosure, rect, client)

\* part_000:120-128.  touches is the event's list of client points.
handleTouchStart(rect, touches) ==
  /\ isPreviewReady
  /\ IF Len(touches) = 0
       THEN /\ UNCHANGED <<isDragging, dragStartRef, dragCount>>
            /\ defaultPrevented' = FALSE
       ELSE LET pos == getCanvasRelativePos(bottomLayerDimensions, rect,
                                            touches[1])
            IN /\ handleDragStart(pos)
               /\ defaultPrevented' = DragStarts(pos)
  /\ lastAlert' = ""
  /\ UNCHANGED <<layerVars, videoTransform, isHovering>>

\* part_000:130-136, as made by the render whose handlers close over h.
handleTouchMoveOf(h, rect, touches) ==
  /\ previewMounted
  /\ IF Len(touches) = 0
       THEN UNCHANGED videoTransform
       ELSE handleDragMoveOf(h, getCanvasRelativePos(bottomLayerDimensions, rect,
                                                     touches[1]))
  /\ UNCHANGED <<bottomLayerFile, topLayerFile, bottomLayerUrl, topLayerUrl,
                 bottomLayerType, topLayerType, bottomLayerDimensions,
                 topLayerAspectRatio, objectUrls,
                 isDragging, isHovering, dragStartRef, dragCount>>
  /\ defaultPrevented' = FALSE
  /\ lastAlert' = ""

\* part_000:130-136, as made by the render of the current state.
handleTouchMove(rect, touches) == handleTouchMoveOf(HandlerClosure, rect, touches)

\* part_000:88-93, as made by the render whose handlers close over h.
handleDragEndOf(h) ==
  /\ previewMounted
  /\ IF h.isDragging
       THEN /\ isDragging' = FALSE
            /\ dragStartRef' = << >>
       ELSE UNCHANGED <<isDragging, dragStartRef>>
  /\ defaultPrevented' = FALSE
  /\ lastAlert' = ""
  /\ UNCHANGED <<layerVars, videoTransform, isHovering, dragCount>>

\* A mutant of handleDragEnd: the anchor is left in dragStartRef.
handleDragEndKeepAnchor ==
  /\ isPreviewReady
  /\ isDragging' = FALSE
  /\ defaultPrevented' = FALSE
  /\ lastAlert' = ""
  /\ UNCHANGED <<layerVars, videoTransform, isHovering, dragCount, dragStartRef>>

\* part_000:88-93, the window's mouseup, touchend and touchcancel listener,
\* as made by the render of the current state.
handleDragEnd == handleDragEndOf(HandlerClosure)

---------------------------------------------------------------------------
(* Chroma key: the settings and the per-frame filter.  A hex string is     *)
(* modelled by the values of its hex digits: six digits match hexToRgb's   *)
(* pattern, any other length does not, and << >> is the empty string.      *)

\* App.tsx:174-181.  << >> is null.
hexToRgb(hex) ==
  IF Len(hex) = 6
    THEN [r |-> 16 * hex[1] + hex[2], g |-> 16 * hex[3] + hex[4],
          b |-> 16 * hex[5] + hex[6]]
    ELSE << >>

\* App.tsx:183-185.
rgbToHex(r, g, b) == <<r \div 16, r % 16, g \div 16, g % 16, b \div 16, b % 16>>

\* App.tsx:40-44.
InitialChromaKeySettings ==
  [color |-> [r |-> 0, g |-> 255, b |-> 0],
   hexColor |-> <<0, 0, 15, 15, 0, 0>>,
   tolerance |-> 50]

\* App.tsx:187-197.  A falsy hexColor ('') does not re-derive the colour.
handleChromaKeyChange(newSettings) ==
  /\ LET updated == Merge(chromaKeySettings, newSettings) IN
     chromaKeySettings' =
       IF "hexColor" \in DOMAIN newSettings /\ newSettings.hexColor # << >>
         THEN [updated EXCEPT !.color =
                 IF hexToRgb(newSettings.hexColor) # << >>
                   THEN hexToRgb(newSettings.hexColor)
                   ELSE chromaKeySettings.color]
       ELSE IF "color" \in DOMAIN newSettings
         THEN [updated EXCEPT !.hexColor =
                 rgbToHex(newSettings.color.r, newSettings.color.g,
                          newSettings.color.b)]
       ELSE updated
  /\ lastAlert' = ""
  /\ UNCHANGED <<sceneVars, pointerVars, topFrame, canvas, recVars>>

\* Math.sqrt of a sum of squares sq >= 0, as its integer part and whether
\* the root is that integer exactly.
MathSqrt(sq) ==
  LET root == CHOOSE r \in 0..(3 * 255) : r * r <= sq /\ sq < (r + 1) * (r + 1)
  IN [floor |-> root, exact |-> root * root = sq]

\* part_000:230-234, for the pixel whose red byte is data[i].
Distance(data, i, keyColor) ==
  MathSqrt((data[i] - keyColor.r) * (data[i] - keyColor.r)
           + (data[i + 1] - keyColor.g) * (data[i + 1] - keyColor.g)
           + (data[i + 2] - keyColor.b) * (data[i + 2] - keyColor.b))

\* A mutant of IsKeyed: a distance equal to the tolerance is keyed too.
IsKeyedInclusive(distance, tolerance) ==
  \/ distance.floor < tolerance
  \/ distance.floor = tolerance /\ distance.exact

\* part_000:236: distance < tolerance, for an integer tolerance.
IsKeyed(distance, tolerance) == distance.floor < tolerance

\* A mutant of ChromaKey: a keyed pixel is cleared in all four channels.
ChromaKeyClear(data, keyColor, tolerance) ==
  [j \in 1..Len(data) |->
     IF IsKeyed(Distance(data, 4 * ((j - 1) \div 4) + 1, keyColor), tolerance)
       THEN 0
       ELSE data[j]]

\* The loop of part_000:225-239 over the flat RGBA bytes (1-based here:
\* byte j is an alpha byte when j is a multiple of 4).
ChromaKey(data, keyColor, tolerance) ==
  [j \in 1..Len(data) |->
     IF j % 4 = 0 /\ IsKeyed(Distance(data, j - 3, keyColor), tolerance)
       THEN 0
       ELSE data[j]]

\* The steps of render that call into the canvas: the background draw
\* (part_000:193), the draw into the offscreen canvas (216-217),
\* getImageData (220), putImageData (240), the draw of the keyed frame
\* (242-248) and the direct draw of the catch block (253-259).
RenderSteps == {"background", "offscreen", "read", "write", "foreground", "fallback"}

\* A mutant of RenderOutcome: the catch block draws nothing.
RenderOutcomeNoFallback(failed) ==
  IF "background" \in failed THEN "thrown"
  ELSE IF topFrame = << >> \/ ~elementProps THEN "none"
  ELSE IF "offscreen" \in failed THEN "thrown"
  ELSE IF failed \cap {"read", "write", "foreground"} = {} THEN "keyed"
  ELSE "caught"

\* How a run of render ends when the steps in failed throw: an exception
\* leaves render ("thrown"), no top frame is drawn ("none"), the keyed
\* frame is drawn ("keyed") or the catch block draws the frame as it is
\* ("direct").  Only part_000:219-260 is inside try/catch.
RenderOutcome(failed) ==
  IF "background" \in failed THEN "thrown"
  ELSE IF topFrame = << >> \/ ~elementProps THEN "none"
  ELSE IF "offscreen" \in failed THEN "thrown"
  ELSE IF failed \cap {"read", "write", "foreground"} = {} THEN "keyed"
  ELSE IF "fallback" \in failed THEN "thrown"
  ELSE "direct"

\* A mutant of Rescheduled: a run whose catch block ran is not followed by
\* another.
RescheduledUnlessCaught(failed) ==
  RenderOutcome(failed) \in {"none", "keyed"}

\* requestAnimationFrame(render) (part_000:264) is reached.
Rescheduled(failed) == RenderOutcome(failed) # "thrown"

\* A mutant of ForcedPlay: the loop resumes paused videos in every run.
ForcedPlayAlways ==
  [l \in Layers |->
     IF elementProps /\ (IF l = "bottom" THEN bottomLayerType ELSE topLayerType) = "video"
       THEN FALSE
       ELSE paused[l]]

\* The paused flags after the first block of render (part_000:182-189):
\* while recording, play() is called on every element that is a paused
\* <video>.  (play() clears the paused flag at once; a recording is started
\* by a click, so the browser does not refuse the playback.)
ForcedPlay ==
  IF loopClosure.isRecording
    THEN [l \in Layers |->
            IF elementProps
               /\ (IF l = "bottom" THEN bottomLayerType ELSE topLayerType) = "video"
              THEN FALSE
              ELSE paused[l]]
    ELSE paused

\* One run of render (part_000:181-265), due as the effect's first call or
\* as an animation frame callback, in which the steps in failed throw.  The
\* run works on what its closure holds (part_000:180, 272).
renderFrame(failed) ==
  /\ animationFrame
  /\ framesDrawn < MaxFrames
  /\ paused' = ForcedPlay
  /\ forcedPlays' = forcedPlays + Cardinality({l \in Layers : paused[l] /\ ~ForcedPlay[l]})
  /\ LET outcome == RenderOutcome(failed) IN
     /\ canvas' =
          IF outcome = "keyed"
            THEN [data |-> ChromaKey(topFrame, loopClosure.chromaKeySettings.color,
                                     loopClosure.chromaKeySettings.tolerance),
                  at |-> loopClosure.videoTransform]
          ELSE IF outcome = "direct"
            THEN [data |-> topFrame, at |-> loopClosure.videoTransform]
          ELSE canvas
     /\ consoleErrors' =
          IF outcome \in {"direct", "caught"}
             \/ (outcome = "thrown" /\ "background" \notin failed
                 /\ "offscreen" \notin failed)
            THEN consoleErrors + 1
            ELSE consoleErrors
  /\ pendingFrames' = IF Rescheduled(failed) THEN pendingFrames ELSE pendingFrames - 1
  /\ animationFrame' = (pendingFrames' > 0)
  /\ framesDrawn' = framesDrawn + 1
  /\ UNCHANGED loopClosure
  /\ UNCHANGED <<appVars, pointerVars, chromaKeySettings, topFrame, recVars,
                 listenerVars, pageVars, genVars>>

\* A run of render in which nothing throws.  Object URLs of local files do
\* not taint the canvas, so getImageData does not throw for them.
render ==
  /\ topFrame # << >>
  /\ renderFrame({})

\* A dependency of the animation effect (part_000:272) has changed in this
\* step.  The elements follow the layer types and the refs (App.tsx:324-325);
\* a state set to an equal value is taken as unchanged.
LoopDepsChanged ==
  <<bottomLayerType, topLayerType, bottomLayerDimensions, videoTransform,
    chromaKeySettings, isRecording, elementProps>>' #
  <<bottomLayerType, topLayerType, bottomLayerDimensions, videoTransform,
    chromaKeySettings, isRecording, elementProps>>

\* The effect runs anew in this step: PreviewCanvas is mounted by it, or
\* stays mounted with a changed dependency.
LoopRestarts == previewMounted' /\ (~previewMounted \/ LoopDepsChanged)

\* What the render of a loop started in this step closes over.
NewClosure ==
  [videoTransform |-> videoTransform', chromaKeySettings |-> chromaKeySettings',
   isRecording |-> isRecording']

\* What the listener effect (part_000:139-158) does to the window when a
\* handler has run.
ListenersAfter ==
  listeners' = ListenerEffect(listeners, previewMounted', HandlerClosure')

\* A mutant of LoopAfter: the effect's cleanup cancels nothing.
LoopAfterNoCancel ==
  /\ pendingFrames' = IF LoopRestarts /\ pendingFrames < 2
                        THEN pendingFrames + 1
                        ELSE pendingFrames
  /\ animationFrame' = (pendingFrames' > 0)
  /\ loopClosure' = IF LoopRestarts THEN NewClosure ELSE loopClosure
  /\ UNCHANGED <<framesDrawn, consoleErrors>>

\* What the animation effect (part_000:162-272) does to the loop when a
\* handler has run: unmounting cancels the pending frame; mounting, or a
\* changed dependency while mounted, cancels it and calls render anew.
LoopAfter ==
  /\ pendingFrames' = IF ~previewMounted' THEN 0
                      ELSE IF LoopRestarts THEN 1
                      ELSE pendingFrames
  /\ animationFrame' = (pendingFrames' > 0)
  /\ loopClosure' = IF ~previewMounted' THEN << >>
                    ELSE IF LoopRestarts THEN NewClosure
                    ELSE loopClosure
  /\ UNCHANGED <<framesDrawn, consoleErrors>>

\* The loop of a preview that is not mounted, or has just been mounted.
InitLoop(mounted) ==
  /\ animationFrame = mounted
  /\ framesDrawn = 0
  /\ consoleErrors = 0
  /\ pendingFrames = IF mounted THEN 1 ELSE 0
  /\ loopClosure = IF mounted
                     THEN [videoTransform |-> videoTransform,
                           chromaKeySettings |-> chromaKeySettings,
                           isRecording |-> isRecording]
                     ELSE << >>

\* The rest of the page at its start: no video is paused, the compositor is
\* the page shown, the generative-video page has never been mounted.
InitOther(mounted) ==
  /\ paused = [l \in Layers |-> FALSE]
  /\ forcedPlays = 0
  /\ currentPage = "bk-ground-swap"
  /\ elementProps = TRUE
  /\ reloadDue = {}
  /\ listeners = ListenerEffect(NoListeners, mounted, HandlerClosure)
  /\ apiKey = "" /\ prompt = "" /\ status = "idle" /\ error = << >>
  /\ generatedVideoUrl = 0 /\ operation = << >>
  /\ localStorage = ""
  /\ submits = << >> /\ pollChains = << >>

InitKey ==
  /\ chromaKeySettings = InitialChromaKeySettings
  /\ topFrame = << >>
  /\ canvas = << >>

---------------------------------------------------------------------------
(* The recording pipeline (App.tsx:199-320).  A MediaRecorder delivers its *)
(* events as tasks: dataavailable while it records, and after stop() one   *)
(* task that fires the last dataavailable and then stop.                   *)

RecordingUnsupported == "Sorry, your browser doesn't support video recording."

\* App.tsx:204-209.
webmPrioritizedTypes ==
  << [mimeType |-> "video/webm;codecs=vp9,opus", extension |-> "webm"],
     [mimeType |-> "video/webm;codecs=vp8,vorbis", extension |-> "webm"],
     [mimeType |-> "video/webm", extension |-> "webm"],
     [mimeType |-> "video/mp4", extension |-> "mp4"] >>

\* App.tsx:211-214.
mp4PrioritizedTypes ==
  << [mimeType |-> "video/mp4", extension |-> "mp4"],
     [mimeType |-> "video/webm;codecs=vp9,opus", extension |-> "webm"] >>

\* The loop of App.tsx:218-224 from position i of the list on.
RECURSIVE FirstSupported(_, _, _)
FirstSupported(types, i, supported) ==
  IF i > Len(types) THEN [mimeType |-> "", extension |-> "webm"]
  ELSE IF types[i].mimeType \in supported THEN types[i]
  ELSE FirstSupported(types, i + 1, supported)

\* A mutant of getSupportedMimeType: the user agent is not looked at.
getSupportedMimeTypeAnyBrowser ==
  FirstSupported(webmPrioritizedTypes, 1, browser.supported)

\* A mutant of getSupportedMimeType: when nothing is supported, plain WebM
\* is returned as if it were.
getSupportedMimeTypeOrWebm ==
  LET typesToCheck == IF browser.isSafari THEN mp4PrioritizedTypes
                                          ELSE webmPrioritizedTypes
      found == FirstSupported(typesToCheck, 1, browser.supported)
  IN IF found.mimeType = "" THEN [mimeType |-> "video/webm", extension |-> "webm"]
     ELSE found

\* App.tsx:199-225.
getSupportedMimeType ==
  LET typesToCheck == IF browser.isSafari THEN mp4PrioritizedTypes
                                          ELSE webmPrioritizedTypes
  IN FirstSupported(typesToCheck, 1, browser.supported)

\* The browsers a session can run in.
Chromium ==
  [isSafari |-> FALSE,
   supported |-> {"video/webm;codecs=vp9,opus", "video/webm", "video/mp4"}]

Browsers ==
  { Chromium,
    [isSafari |-> FALSE, supported |-> {"video/mp4"}],
    [isSafari |-> TRUE,
     supported |-> {"video/mp4", "video/webm;codecs=vp9,opus"}],
    [isSafari |-> TRUE, supported |-> {}] }

\* [bottomVideoRef.current, topVideoRef.current].filter(Boolean)
\* (App.tsx:238): the hidden <video> elements rendered (App.tsx:364, 366).
videoElements ==
  {l \in Layers :
     IF l = "bottom" THEN bottomLayerUrl # 0 /\ bottomLayerType = "video"
                     ELSE topLayerUrl # 0 /\ topLayerType = "video"}

\* The sizes of the blobs an encoder hands out (0: an empty blob).
ChunkSizes == {0, 1}

\* The k-th blob recorder r hands out.
Chunk(r, k, size) == [session |-> r, n |-> k, size |-> size]

\* ondataavailable (App.tsx:280-284) on the chunk array as it is then.
OnDataAvailable(chunks, data) ==
  IF data.size > 0 THEN Append(chunks, data) ELSE chunks

\* The videos whose audio App.tsx:244-256 connects.  ready[l]: the layer's
\* <video> has readyState > 0.  createMediaElementSource throws for an
\* element that already has a source node (Web Audio: InvalidStateError),
\* which the code catches.
ConnectedSources(ready) ==
  {v \in videoElements : ready[v] /\ sourceOf[v] = 0}

\* A mutant of FinalStream: the sink's audio track is always added.
FinalStreamWithAudio(hasAudio) == {"video", "audio"}

\* The tracks of finalStream (App.tsx:259-266).
FinalStream(hasAudio) ==
  IF hasAudio THEN {"video", "audio"} ELSE {"video"}

\* A mutant of StartAvailable: the start button is shown while recording.
StartAlwaysShown == controlsEnabled

\* VideoControls.tsx:229-239: the start button is rendered only while
\* isRecording is false, and is disabled without controlsEnabled.
StartAvailable == ~isRecording /\ controlsEnabled

\* App.tsx:227-313.
handleStartRecording(ready) ==
  /\ StartAvailable
  /\ isPreviewReady
  /\ Len(audioContexts) < MaxSessions
  /\ LET audioContext == Len(audioContexts) + 1
         connected == ConnectedSources(ready)
         hasAudio == connected # {}
         supportedType == getSupportedMimeType
     IN /\ audioContexts' = Append(audioContexts, "running")
        /\ sourceOf' = [l \in Layers |->
                          IF l \in connected THEN audioContext ELSE sourceOf[l]]
        /\ IF supportedType.mimeType = ""
             THEN /\ lastAlert' = RecordingUnsupported
                  /\ muted' = [l \in Layers |->
                                 IF l \in videoElements THEN TRUE ELSE muted[l]]
                  /\ UNCHANGED <<isRecording, mediaRecorderRef, recordedChunksRef,
                                 recorders>>
             ELSE /\ recorders' =
                       Append(recorders,
                              [state |-> "recording",
                               mimeType |-> supportedType.mimeType,
                               extension |-> supportedType.extension,
                               audioContext |-> audioContext,
                               videoElements |-> videoElements,
                               stream |-> FinalStream(hasAudio),
                               emitted |-> << >>,
                               stopFired |-> FALSE,
                               error |-> FALSE])
                  /\ mediaRecorderRef' = Len(recorders) + 1
                  /\ recordedChunksRef' = << >>
                  /\ muted' = [l \in Layers |->
                                 IF l \in videoElements THEN FALSE ELSE muted[l]]
                  /\ isRecording' = TRUE
                  /\ lastAlert' = ""
  /\ UNCHANGED <<sceneVars, pointerVars, keyVars, downloads, browser>>

\* App.tsx:315-320.  stop() on an inactive recorder throws an
\* InvalidStateError on some platforms, and the handler ends there; on
\* others it returns and the handler goes on.
handleStopRecording ==
  /\ isRecording
  /\ IF mediaRecorderRef # 0 /\ recorders[mediaRecorderRef].state = "inactive"
       THEN /\ UNCHANGED recorders
            /\ isRecording' \in {isRecording, FALSE}
       ELSE /\ recorders' =
                 IF mediaRecorderRef # 0
                   THEN [recorders EXCEPT ![mediaRecorderRef].state = "inactive"]
                   ELSE recorders
            /\ isRecording' = FALSE
  /\ lastAlert' = ""
  /\ UNCHANGED <<sceneVars, pointerVars, keyVars, mediaRecorderRef,
                 recordedChunksRef, muted, audioContexts, sourceOf, downloads,
                 browser>>

\* Recorder r fires dataavailable while it records (App.tsx:280-284).
EncoderData(r, size) ==
  /\ recorders[r].state = "recording"
  /\ Len(recorders[r].emitted) < MaxChunks
  /\ LET data == Chunk(r, Len(recorders[r].emitted) + 1, size) IN
     /\ recorders' = [recorders EXCEPT ![r].emitted = Append(@, data)]
     /\ recordedChunksRef' = OnDataAvailable(recordedChunksRef, data)
  /\ lastAlert' = ""
  /\ UNCHANGED <<sceneVars, pointerVars, keyVars, isRecording, mediaRecorderRef,
                 muted, audioContexts, sourceOf, downloads, browser>>

\* Recorder r meets an error while it records.  The platform fires error at
\* the recorder, for which the code sets no handler (App.tsx:276-301), and
\* stops it; the recorder's last task follows as after stop().
EncoderError(r) ==
  /\ recorders[r].state = "recording"
  /\ recorders' = [recorders EXCEPT ![r].state = "inactive", ![r].error = TRUE]
  /\ lastAlert' = ""
  /\ UNCHANGED <<sceneVars, pointerVars, keyVars, isRecording, mediaRecorderRef,
                 recordedChunksRef, muted, audioContexts, sourceOf, downloads,
                 browser>>

\* The task of a stopped recorder r: the last dataavailable
\* (App.tsx:280-284), then onstop (App.tsx:286-301) with the values it
\* closed over.  The blob's object URL is made and revoked within onstop.
EncoderStop(r, size) ==
  /\ recorders[r].state = "inactive"
  /\ ~recorders[r].stopFired
  /\ LET data == Chunk(r, Len(recorders[r].emitted) + 1, size)
         chunks == OnDataAvailable(recordedChunksRef, data)
     IN /\ recorders' = [recorders EXCEPT ![r].emitted = Append(@, data),
                                          ![r].stopFired = TRUE]
        /\ recordedChunksRef' = chunks
        /\ downloads' = Append(downloads,
                               [session |-> r,
                                parts |-> chunks,
                                type |-> recorders[r].mimeType,
                                download |-> <<"videyo_export",
                                               recorders[r].extension>>])
  /\ muted' = [l \in Layers |->
                 IF l \in recorders[r].videoElements THEN TRUE ELSE muted[l]]
  /\ audioContexts' = [audioContexts EXCEPT ![recorders[r].audioContext] = "closed"]
  /\ lastAlert' = ""
  /\ UNCHANGED <<sceneVars, pointerVars, keyVars, isRecording, mediaRecorderRef,
                 sourceOf, browser>>

InitRec ==
  /\ isRecording = FALSE
  /\ mediaRecorderRef = 0
  /\ recordedChunksRef = << >>
  /\ recorders = << >>
  /\ muted = [l \in Layers |-> TRUE]
  /\ audioContexts = << >>
  /\ sourceOf = [l \in Layers |-> 0]
  /\ downloads = << >>

---------------------------------------------------------------------------
(* AIVideoGenPage: the submit step and the poll chains.  An operation is   *)
(* <<n>>, the n-th operation object the service returned; a poll chain is  *)
(* [at, isCancelled]: what the chain waits for ("query": the answer of      *)
(* getVideosOperation, "fetch": the video file, "timer": its timeout,      *)
(* "ended") and the isCancelled of the effect run that started it.         *)

ApiKeyMissing == "API Key is missing. Polling stopped."

\* The cleanup of the polling effect (AIVideoGenPage.tsx:117-119).
CancelChains(chains) ==
  [i \in DOMAIN chains |-> [chains[i] EXCEPT !.isCancelled = TRUE]]

\* The polling effect (AIVideoGenPage.tsx:62-120) run for new values of its
\* dependencies: the page's status, error and chains afterwards.  Setting
\* the status to 'error' runs the effect once more, which then returns at
\* its first line.
PollEffect(st, e, op, key, chains) ==
  IF st # "polling" \/ op = << >>
    THEN [status |-> st, error |-> e, pollChains |-> CancelChains(chains)]
  ELSE IF key = ""
    THEN [status |-> "error", error |-> <<ApiKeyMissing>>,
          pollChains |-> CancelChains(chains)]
  ELSE [status |-> st, error |-> e,
        pollChains |-> Append(CancelChains(chains),
                              [at |-> "query", isCancelled |-> FALSE])]

\* A step of the page sets status, error, operation and apiKey to these
\* values and leaves the chains as given; the polling effect runs if one of
\* its dependencies [status, operation, apiKey] has changed.
SetPage(st, e, op, key, chains) ==
  LET after == IF <<st, op, key>> # <<status, operation, apiKey>>
                 THEN PollEffect(st, e, op, key, chains)
                 ELSE [status |-> st, error |-> e, pollChains |-> chains]
  IN /\ Len(after.pollChains) <= MaxPolls
     /\ status' = after.status
     /\ error' = after.error
     /\ pollChains' = after.pollChains
     /\ operation' = op
     /\ apiKey' = key

\* The page is shown; the rest of the application stands still.
OnGenPage ==
  /\ currentPage = "ai-video-gen"
  /\ UNCHANGED <<appVars, pointerVars, keyVars, recVars, loopVars, playVars,
                 listenerVars, pageVars>>

\* AIVideoGenPage.tsx:21-25.
handleApiKeyChange(newKey) ==
  /\ OnGenPage
  /\ localStorage' = newKey
  /\ SetPage(status, error, operation, newKey, pollChains)
  /\ UNCHANGED <<prompt, generatedVideoUrl, submits>>

isLoading == status \in {"generating", "polling"}

\* The textarea's onChange (AIVideoGenPage.tsx:191), disabled while loading.
handlePromptChange(newPrompt) ==
  /\ OnGenPage
  /\ ~isLoading
  /\ prompt' = newPrompt
  /\ UNCHANGED <<apiKey, status, error, generatedVideoUrl, operation,
                 localStorage, submits, pollChains>>

\* AIVideoGenPage.tsx:27-46, up to the await; the button is disabled while
\* loading and without a key or a prompt (AIVideoGenPage.tsx:200).
handleGenerate ==
  /\ OnGenPage
  /\ ~isLoading /\ prompt # "" /\ apiKey # ""
  /\ Len(submits) < MaxSubmits
  /\ generatedVideoUrl' = 0
  /\ submits' = Append(submits, "pending")
  /\ SetPage("generating", << >>, << >>, apiKey, pollChains)
  /\ UNCHANGED <<prompt, localStorage>>

\* The operation objects made so far.
Operations == Len(pollChains) + Len(submits)

\* generateVideos resolves (AIVideoGenPage.tsx:53-54) or rejects (55-59).
SubmitSettles(i, resolved) ==
  /\ OnGenPage
  /\ i \in DOMAIN submits /\ submits[i] = "pending"
  /\ submits' = [submits EXCEPT ![i] = "settled"]
  /\ IF resolved
       THEN SetPage("polling", error, <<Operations>>, apiKey, pollChains)
       ELSE SetPage("error", <<"generateVideos failed">>, operation, apiKey,
                    pollChains)
  /\ UNCHANGED <<prompt, generatedVideoUrl, localStorage>>

\* The chains that are neither cancelled nor ended.
LiveChains(chains) ==
  {c \in DOMAIN chains : ~chains[c].isCancelled /\ chains[c].at # "ended"}

\* What getVideosOperation can answer: the operation still runs, it is done
\* with a video, done without one, or the call fails.
PollAnswers == {"running", "video", "no video", "failed"}

\* if (isCancelled) return (AIVideoGenPage.tsx:75, 80, 108).
ChainStops(chain) == chain.isCancelled

\* getVideosOperation settles for chain c (AIVideoGenPage.tsx:78-112).
PollResponds(c, answer) ==
  /\ OnGenPage
  /\ c \in DOMAIN pollChains /\ pollChains[c].at = "query"
  /\ IF ChainStops(pollChains[c])
       THEN /\ pollChains' = [pollChains EXCEPT ![c].at = "ended"]
            /\ UNCHANGED <<status, error, operation, apiKey>>
     ELSE IF answer = "running"
       THEN SetPage(status, error, <<Operations>>, apiKey,
                    [pollChains EXCEPT ![c].at = "timer"])
     ELSE IF answer = "video"
       THEN /\ pollChains' = [pollChains EXCEPT ![c].at = "fetch"]
            /\ UNCHANGED <<status, error, operation, apiKey>>
     ELSE SetPage("error", <<"polling failed">>, operation, apiKey,
                  [pollChains EXCEPT ![c].at = "ended"])
  /\ UNCHANGED <<prompt, generatedVideoUrl, localStorage, submits>>

\* The timeout of chain c fires: poll(currentOperation)
\* (AIVideoGenPage.tsx:105, 75).
TimerFires(c) ==
  /\ OnGenPage
  /\ c \in DOMAIN pollChains /\ pollChains[c].at = "timer"
  /\ pollChains' = [pollChains EXCEPT
                      ![c].at = IF ChainStops(pollChains[c]) THEN "ended"
                                ELSE "query"]
  /\ UNCHANGED <<apiKey, prompt, status, error, generatedVideoUrl, operation,
                 localStorage, submits>>

\* The fetch of the video file settles for chain c
\* (AIVideoGenPage.tsx:87-92): with the file, the URL and the status are
\* set; without it the catch block runs (107-112).
FetchSettles(c, ok) ==
  /\ OnGenPage
  /\ c \in DOMAIN pollChains /\ pollChains[c].at = "fetch"
  /\ IF ok
       THEN /\ generatedVideoUrl' = c
            /\ SetPage("success", error, operation, apiKey,
                       [pollChains EXCEPT ![c].at = "ended"])
     ELSE IF ChainStops(pollChains[c])
       THEN /\ pollChains' = [pollChains EXCEPT ![c].at = "ended"]
            /\ UNCHANGED <<status, error, operation, apiKey, generatedVideoUrl>>
     ELSE /\ SetPage("error", <<"fetch failed">>, operation, apiKey,
                     [pollChains EXCEPT ![c].at = "ended"])
          /\ UNCHANGED generatedVideoUrl
  /\ UNCHANGED <<prompt, localStorage, submits>>

---------------------------------------------------------------------------
(* The pages.  App renders the compositor only while currentPage is        *)
(* 'bk-ground-swap' (App.tsx:332); its own state outlives the change of     *)
(* page, while the hidden media elements, the controls and PreviewCanvas   *)
(* are unmounted with the compositor and mounted anew on the way back.     *)

Pages == {"bk-ground-swap", "ai-video-gen", "combine-clips"}

\* The layers whose hidden element a render of the compositor mounts
\* (App.tsx:363-366).
MountedLayers ==
  {l \in Layers : (IF l = "bottom" THEN bottomLayerUrl ELSE topLayerUrl) # 0}

\* The video elements among them: a new video element does not play before
\* its load handler calls play() (App.tsx:111, 129).
MountedVideos ==
  {l \in MountedLayers :
     (IF l = "bottom" THEN bottomLayerType ELSE topLayerType) = "video"}

\* AIVideoGenPage as mounted (AIVideoGenPage.tsx:6-19): useState's initial
\* values, then the saved key from localStorage.  The state, the submits
\* and the chains of an unmounted page are gone with it: its setters change
\* nothing any more.
MountGenPage(shown) ==
  /\ apiKey' = IF shown THEN localStorage ELSE ""
  /\ prompt' = "" /\ status' = "idle" /\ error' = << >>
  /\ generatedVideoUrl' = 0 /\ operation' = << >>
  /\ submits' = << >> /\ pollChains' = << >>
  /\ UNCHANGED localStorage

\* Header's onNavigate (Header.tsx:27, App.tsx:329): setCurrentPage(page).
\* The same page again changes nothing.  The render that brings the
\* compositor back reads the element refs before the new elements are
\* attached to them (App.tsx:324-325), so PreviewCanvas is mounted with
\* null elements; the new elements have their load events to come.
handleNavigate(page) ==
  /\ currentPage' = page
  /\ IF page = currentPage
       THEN UNCHANGED <<pointerVars, canvas, elementProps, reloadDue, paused,
                        genVars>>
       ELSE /\ UnmountPreview
            /\ canvas' = << >>
            /\ elementProps' = FALSE
            /\ reloadDue' = IF page = "bk-ground-swap" THEN MountedLayers ELSE {}
            /\ paused' = [l \in Layers |->
                            page = "bk-ground-swap" /\ l \in MountedVideos]
            /\ MountGenPage(page = "ai-video-gen")
  /\ UNCHANGED <<layerVars, videoTransform, chromaKeySettings, topFrame, recVars,
                 forcedPlays>>
  /\ lastAlert' = ""
  /\ ListenersAfter /\ LoopAfter

\* The background's new element fires its load event: handleBottomLayerLoad
\* (App.tsx:100-114) sets the dimensions to a new object of the same
\* values.  App renders again, now with the elements in the refs; the reset
\* effect (App.tsx:139-155) and the animation effect (part_000:272) see a
\* changed dependency.
ReloadBottom ==
  /\ currentPage = "bk-ground-swap"
  /\ "bottom" \in reloadDue
  /\ bottomLayerDimensions # << >>
  /\ reloadDue' = reloadDue \ {"bottom"}
  /\ elementProps' = TRUE
  /\ videoTransform' = AfterResetEffect(videoTransform, bottomLayerDimensions,
                                        topLayerAspectRatio, TRUE)
  /\ paused' = [paused EXCEPT !["bottom"] = FALSE]
  /\ UNCHANGED <<layerVars, pointerVars, keyVars, recVars, forcedPlays,
                 currentPage, genVars>>
  /\ lastAlert' = ""
  /\ ListenersAfter
  /\ pendingFrames' = IF previewMounted THEN 1 ELSE 0
  /\ animationFrame' = (pendingFrames' > 0)
  /\ loopClosure' = IF previewMounted THEN NewClosure ELSE << >>
  /\ UNCHANGED <<framesDrawn, consoleErrors>>

\* The foreground's new element fires its load event: handleTopLayerLoad
\* (App.tsx:116-136) sets the aspect ratio to the number it already is, so
\* nothing renders again.
ReloadTop ==
  /\ currentPage = "bk-ground-swap"
  /\ "top" \in reloadDue
  /\ topLayerAspectRatio # << >>
  /\ reloadDue' = reloadDue \ {"top"}
  /\ paused' = [paused EXCEPT !["top"] = FALSE]
  /\ UNCHANGED <<appVars, pointerVars, keyVars, recVars, loopVars, forcedPlays,
                 listenerVars, currentPage, elementProps, genVars>>

---------------------------------------------------------------------------
(* The preview session: inputs and the specification. *)

\* Slider values; the handler accepts values outside the slider's 0..200.
Sizes == {-50, 100, 250}

\* Percent entries, in tenths of a percent (<< >>: not a number).
PercentInputs == {<< >>, <<200>>, <<-100>>, <<1500>>}

PercentNames == {"lr_pos_percent", "ud_pos_percent"}

\* Pointer positions in client (CSS) pixels.
ClientPoints == {<<1, 1>>, <<2, 3>>}

TouchLists == {<< >>, <<<<1, 1>>>>, <<<<2, 3>>, <<1, 1>>>>}

\* The rectangles the mounted canvas can report (none while unmounted).
CanvasRects == IF isPreviewReady THEN Rects(bottomLayerDimensions) ELSE {}

Init ==
  /\ bottomLayerFile = << >> /\ topLayerFile = << >>
  /\ bottomLayerUrl = 0 /\ topLayerUrl = 0
  /\ bottomLayerType = "none" /\ topLayerType = "none"
  /\ bottomLayerDimensions = << >> /\ topLayerAspectRatio = << >>
  /\ videoTransform = InitialTransform
  /\ objectUrls = [bottom |-> << >>, top |-> << >>]
  /\ lastAlert = ""
  /\ isDragging = FALSE /\ isHovering = FALSE /\ dragStartRef = << >>
  /\ defaultPrevented = FALSE
  /\ dragCount = 0
  /\ InitKey
  /\ InitRec /\ browser = Chromium
  /\ InitLoop(FALSE) /\ InitOther(FALSE)

Next ==
  \/ /\ \E file \in Files, layer \in Layers : handleFileUpload(file, layer)
     /\ UNCHANGED <<keyVars, recVars>> /\ UNCHANGED restVars /\ ListenersAfter /\ LoopAfter
  \/ handleBottomLayerLoad /\ UNCHANGED <<keyVars, recVars>> /\ UNCHANGED restVars /\ ListenersAfter /\ LoopAfter
  \/ handleTopLayerLoad /\ UNCHANGED <<keyVars, recVars>> /\ UNCHANGED restVars /\ ListenersAfter /\ LoopAfter
  \/ /\ \E s \in Sizes : handleSizeChange(s)
     /\ UNCHANGED <<keyVars, recVars>> /\ UNCHANGED restVars /\ ListenersAfter /\ LoopAfter
  \/ /\ \E name \in PercentNames, value \in PercentInputs :
          handlePercentageInputChange(name, value)
     /\ UNCHANGED <<keyVars, recVars>> /\ UNCHANGED restVars /\ ListenersAfter /\ LoopAfter
  \/ /\ \E rect \in CanvasRects, c \in ClientPoints : handleMouseDown(rect, c)
     /\ UNCHANGED <<keyVars, recVars>> /\ UNCHANGED restVars /\ ListenersAfter /\ LoopAfter
  \/ /\ \E rect \in CanvasRects, c \in ClientPoints : handleMouseMove(rect, c)
     /\ UNCHANGED <<keyVars, recVars>> /\ UNCHANGED restVars /\ ListenersAfter /\ LoopAfter
  \/ /\ \E rect \in CanvasRects, ts \in TouchLists : handleTouchStart(rect, ts)
     /\ UNCHANGED <<keyVars, recVars>> /\ UNCHANGED restVars /\ ListenersAfter /\ LoopAfter
  \/ /\ \E rect \in CanvasRects, ts \in TouchLists : handleTouchMove(rect, ts)
     /\ UNCHANGED <<keyVars, recVars>> /\ UNCHANGED restVars /\ ListenersAfter /\ LoopAfter
  \/ handleDragEnd /\ UNCHANGED <<keyVars, recVars>> /\ UNCHANGED restVars /\ ListenersAfter /\ LoopAfter

Spec == Init /\ [][Next]_vars

---------------------------------------------------------------------------
(* Loading scenarios: uploads and load events alone, over more files. *)

NextLoad ==
  \/ /\ \E file \in LoadFiles, layer \in Layers : handleFileUpload(file, layer)
     /\ UNCHANGED <<keyVars, recVars>> /\ UNCHANGED restVars /\ ListenersAfter /\ LoopAfter
  \/ handleBottomLayerLoad /\ UNCHANGED <<keyVars, recVars>> /\ UNCHANGED restVars /\ ListenersAfter /\ LoopAfter
  \/ handleTopLayerLoad /\ UNCHANGED <<keyVars, recVars>> /\ UNCHANGED restVars /\ ListenersAfter /\ LoopAfter

\* Uploads, load events and the controls, without the pointer.
NextControls ==
  \/ /\ \E file \in Files, layer \in Layers : handleFileUpload(file, layer)
     /\ UNCHANGED <<keyVars, recVars>> /\ UNCHANGED restVars /\ ListenersAfter /\ LoopAfter
  \/ handleBottomLayerLoad /\ UNCHANGED <<keyVars, recVars>> /\ UNCHANGED restVars /\ ListenersAfter /\ LoopAfter
  \/ handleTopLayerLoad /\ UNCHANGED <<keyVars, recVars>> /\ UNCHANGED restVars /\ ListenersAfter /\ LoopAfter
  \/ /\ \E s \in Sizes : handleSizeChange(s)
     /\ UNCHANGED <<keyVars, recVars>> /\ UNCHANGED restVars /\ ListenersAfter /\ LoopAfter
  \/ /\ \E name \in PercentNames, value \in PercentInputs :
          handlePercentageInputChange(name, value)
     /\ UNCHANGED <<keyVars, recVars>> /\ UNCHANGED restVars /\ ListenersAfter /\ LoopAfter

SpecControls == Init /\ [][NextControls]_vars

\* The partial Transforms handleTransformChange is called with: those of
\* the callers (size; x; y; x and y) and the empty one.
EmptyPartial == [f \in {} |-> 0]

Partials ==
  { EmptyPartial,
    [f \in {"size"} |-> 250],
    [f \in {"x"} |-> 4],
    [f \in {"y"} |-> -2],
    [f \in {"x", "y"} |-> 6] }

\* Uploads, load events and handleTransformChange on its own.
NextTransform ==
  \/ /\ \E file \in Files, layer \in Layers : handleFileUpload(file, layer)
     /\ UNCHANGED <<keyVars, recVars>> /\ UNCHANGED restVars /\ ListenersAfter /\ LoopAfter
  \/ handleBottomLayerLoad /\ UNCHANGED <<keyVars, recVars>> /\ UNCHANGED restVars /\ ListenersAfter /\ LoopAfter
  \/ handleTopLayerLoad /\ UNCHANGED <<keyVars, recVars>> /\ UNCHANGED restVars /\ ListenersAfter /\ LoopAfter
  \/ /\ \E partial \in Partials : handleTransformChange(partial)
     /\ UNCHANGED <<keyVars, recVars>> /\ UNCHANGED restVars /\ ListenersAfter /\ LoopAfter

SpecTransform == Init /\ [][NextTransform]_vars

SpecLoad == Init /\ [][NextLoad]_vars

\* The App leaves the page (App.tsx:86-98): the cleanup releases the URLs
\* the refs hold.  The component's state, refs and elements are gone; a
\* later mount starts from the initial state, while the browser's registry
\* of object URLs, its AudioContexts and its downloads outlive the App.
AppUnmount ==
  /\ LET afterBottom == IF bottomLayerUrl # 0
                          THEN RevokeObjectURL(objectUrls, "bottom", bottomLayerUrl)
                          ELSE objectUrls
     IN objectUrls' = IF topLayerUrl # 0
                        THEN RevokeObjectURL(afterBottom, "top", topLayerUrl)
                        ELSE afterBottom
  /\ bottomLayerFile' = << >> /\ topLayerFile' = << >>
  /\ bottomLayerUrl' = 0 /\ topLayerUrl' = 0
  /\ bottomLayerType' = "none" /\ topLayerType' = "none"
  /\ bottomLayerDimensions' = << >> /\ topLayerAspectRatio' = << >>
  /\ videoTransform' = InitialTransform
  /\ lastAlert' = ""
  /\ UnmountPreview
  /\ chromaKeySettings' = InitialChromaKeySettings
  /\ topFrame' = << >> /\ canvas' = << >>
  /\ isRecording' = FALSE /\ mediaRecorderRef' = 0 /\ recordedChunksRef' = << >>
  /\ muted' = [l \in Layers |-> TRUE]
  /\ sourceOf' = [l \in Layers |-> 0]
  /\ UNCHANGED <<recorders, audioContexts, downloads, browser>>
  /\ UNCHANGED restVars /\ ListenersAfter /\ LoopAfter

\* Uploads and load events up to the App's teardown.
NextSession ==
  \/ /\ \E file \in LoadFiles, layer \in Layers : handleFileUpload(file, layer)
     /\ UNCHANGED <<keyVars, recVars>> /\ UNCHANGED restVars /\ ListenersAfter /\ LoopAfter
  \/ handleBottomLayerLoad /\ UNCHANGED <<keyVars, recVars>> /\ UNCHANGED restVars /\ ListenersAfter /\ LoopAfter
  \/ handleTopLayerLoad /\ UNCHANGED <<keyVars, recVars>> /\ UNCHANGED restVars /\ ListenersAfter /\ LoopAfter
  \/ AppUnmount

SpecSession == Init /\ [][NextSession]_vars

---------------------------------------------------------------------------
(* The pointer controller alone, on a loaded and positioned preview.  The  *)
(* initial states are those the session reaches by uploading and loading   *)
(* the two files of a scene, setting a size and entering a percent for     *)
(* each axis.                                                              *)

PointerScenes ==
  { <<Background800x600, Foreground400x400>>,
    <<Background100x100, Foreground400x400>> }

PointerSizes == {100, 250}
PointerPercents == {50, 150, 200}

Positioned(dims, ar, s, px, py) ==
  LET t0 == ResetTransform(dims, ar)
      t1 == ApplyUpdate(t0, [f \in {"size"} |-> s], dims, ar)
      t2 == ApplyUpdate(t1, [f \in {"x"} |->
                               PercentToPixels(px, dims[1] - t1.width)], dims, ar)
  IN ApplyUpdate(t2, [f \in {"y"} |->
                        PercentToPixels(py, dims[2] - t2.height)], dims, ar)

InitPointer ==
  \E scene \in PointerScenes, s \in PointerSizes,
     px \in PointerPercents, py \in PointerPercents :
    LET dims == <<scene[1].w, scene[1].h>>
        ar == Ratio(scene[2].w, scene[2].h)
    IN /\ bottomLayerFile = <<scene[1]>> /\ topLayerFile = <<scene[2]>>
       /\ bottomLayerUrl = 1 /\ topLayerUrl = 1
       /\ bottomLayerType = FileTypeOf(scene[1])
       /\ topLayerType = FileTypeOf(scene[2])
       /\ bottomLayerDimensions = dims /\ topLayerAspectRatio = ar
       /\ videoTransform = Positioned(dims, ar, s, px, py)
       /\ objectUrls = [bottom |-> <<0>>, top |-> <<0>>]
       /\ lastAlert = ""
       /\ isDragging = FALSE /\ isHovering = FALSE /\ dragStartRef = << >>
       /\ defaultPrevented = FALSE
       /\ dragCount = 0
       /\ InitKey
       /\ InitRec /\ browser = Chromium
       /\ InitLoop(TRUE) /\ InitOther(TRUE)

PointerPoints == {<<100, 100>>, <<130, 115>>, <<60, 60>>, <<61, 10>>}

PointerTouchLists ==
  {<< >>} \cup {<<c>> : c \in PointerPoints} \cup {<<<<60, 60>>, <<100, 100>>>>}

PointerRects == ScaledRects(bottomLayerDimensions)

NextPointer ==
  \/ /\ \E rect \in PointerRects, c \in PointerPoints : handleMouseDown(rect, c)
     /\ UNCHANGED <<keyVars, recVars>> /\ UNCHANGED restVars /\ ListenersAfter /\ LoopAfter
  \/ /\ \E rect \in PointerRects, c \in PointerPoints : handleMouseMove(rect, c)
     /\ UNCHANGED <<keyVars, recVars>> /\ UNCHANGED restVars /\ ListenersAfter /\ LoopAfter
  \/ /\ \E rect \in PointerRects, ts \in PointerTouchLists :
          handleTouchStart(rect, ts)
     /\ UNCHANGED <<keyVars, recVars>> /\ UNCHANGED restVars /\ ListenersAfter /\ LoopAfter
  \/ /\ \E rect \in PointerRects, ts \in PointerTouchLists :
          handleTouchMove(rect, ts)
     /\ UNCHANGED <<keyVars, recVars>> /\ UNCHANGED restVars /\ ListenersAfter /\ LoopAfter
  \/ handleDragEnd /\ UNCHANGED <<keyVars, recVars>> /\ UNCHANGED restVars /\ ListenersAfter /\ LoopAfter

SpecPointer == InitPointer /\ [][NextPointer]_vars

\* The writers of the Transform interleaved on the smaller preview at its
\* default size: the pointer controller, the size slider and the percent
\* fields.
WriterSizes == {-50, 250}
WriterPercents == {<<200>>, <<1500>>}
WriterPoints == {<<60, 60>>, <<61, 10>>}

InitWriters ==
  /\ InitPointer
  /\ bottomLayerFile = <<Background100x100>>
  /\ videoTransform.size = 100

NextWriters ==
  \/ /\ \E rect \in PointerRects, c \in WriterPoints : handleMouseDown(rect, c)
     /\ UNCHANGED <<keyVars, recVars>> /\ UNCHANGED restVars /\ ListenersAfter /\ LoopAfter
  \/ /\ \E rect \in PointerRects, c \in WriterPoints : handleMouseMove(rect, c)
     /\ UNCHANGED <<keyVars, recVars>> /\ UNCHANGED restVars /\ ListenersAfter /\ LoopAfter
  \/ /\ \E rect \in PointerRects, c \in WriterPoints :
          handleTouchMove(rect, <<c>>)
     /\ UNCHANGED <<keyVars, recVars>> /\ UNCHANGED restVars /\ ListenersAfter /\ LoopAfter
  \/ handleDragEnd /\ UNCHANGED <<keyVars, recVars>> /\ UNCHANGED restVars /\ ListenersAfter /\ LoopAfter
  \/ /\ \E s \in WriterSizes : handleSizeChange(s)
     /\ UNCHANGED <<keyVars, recVars>> /\ UNCHANGED restVars /\ ListenersAfter /\ LoopAfter
  \/ /\ \E name \in PercentNames, value \in WriterPercents :
          handlePercentageInputChange(name, value)
     /\ UNCHANGED <<keyVars, recVars>> /\ UNCHANGED restVars /\ ListenersAfter /\ LoopAfter

SpecWriters == InitWriters /\ [][NextWriters]_vars

---------------------------------------------------------------------------
(* The chroma key alone, on a loaded preview whose top layer is two pixels *)
(* wide: the settings change, the video shows another frame, render runs.  *)

KeyForeground == File("video", "webm", 2, 1)

\* RGBA pixels around the key colours: at distance 0, below 5, exactly 5,
\* above 5, exactly 50 and exactly 255 of #00FF00, and far from it.
KeyPixels ==
  { <<0, 255, 0, 255>>, <<3, 252, 0, 128>>, <<3, 251, 0, 255>>,
    <<4, 251, 1, 255>>, <<30, 215, 0, 255>>, <<255, 255, 0, 200>>,
    <<0, 0, 255, 255>> }

Frames == {p \o q : p \in KeyPixels, q \in {<<3, 251, 0, 255>>, <<0, 0, 255, 0>>}}

\* '#00ff00', '#0000FF', '#03fc01', a string that is not a colour, and ''.
HexInputs ==
  { <<0, 0, 15, 15, 0, 0>>, <<0, 0, 0, 0, 15, 15>>, <<0, 3, 15, 12, 0, 1>>,
    <<0, 15>>, << >> }

ToleranceInputs == {0, 5, 50, 255}

InitChroma ==
  /\ bottomLayerFile = <<File("image", "png", 5, 4)>>
  /\ topLayerFile = <<KeyForeground>>
  /\ bottomLayerUrl = 1 /\ topLayerUrl = 1
  /\ bottomLayerType = "image" /\ topLayerType = "video"
  /\ bottomLayerDimensions = <<5, 4>> /\ topLayerAspectRatio = <<2, 1>>
  /\ videoTransform = ResetTransform(<<5, 4>>, <<2, 1>>)
  /\ objectUrls = [bottom |-> <<0>>, top |-> <<0>>]
  /\ lastAlert = ""
  /\ isDragging = FALSE /\ isHovering = FALSE /\ dragStartRef = << >>
  /\ defaultPrevented = FALSE
  /\ dragCount = 0
  /\ chromaKeySettings = InitialChromaKeySettings
  /\ topFrame \in Frames
  /\ canvas = << >>
  /\ InitRec /\ browser = Chromium
  /\ InitLoop(TRUE) /\ InitOther(TRUE)

\* The <video> decodes its next frame.
FrameAdvance(frame) ==
  /\ topLayerType = "video"
  /\ topFrame' = frame
  /\ UNCHANGED <<appVars, pointerVars, chromaKeySettings, canvas, recVars,
                 loopVars, otherVars>>

NextChroma ==
  \/ /\ \E hex \in HexInputs :
          handleChromaKeyChange([f \in {"hexColor"} |-> hex])
     /\ UNCHANGED restVars /\ ListenersAfter /\ LoopAfter
  \/ /\ \E t \in ToleranceInputs :
          handleChromaKeyChange([f \in {"tolerance"} |-> t])
     /\ UNCHANGED restVars /\ ListenersAfter /\ LoopAfter
  \/ \E frame \in Frames : FrameAdvance(frame)
  \/ render

SpecChroma == InitChroma /\ [][NextChroma]_vars

(***************************************************************************)
(* The render loop alone, on a loaded preview: runs of render in which     *)
(* canvas calls may throw, uploads that unmount the preview, load events   *)
(* that mount it again, and a control that restarts the loop.              *)
(***************************************************************************)
RenderFrames == { <<0, 255, 0, 255, 0, 0, 255, 255>>,
                  <<30, 215, 0, 255, 3, 251, 0, 255>> }

\* The canvas calls that throw in one run of render.
RenderFailures ==
  { {}, {"background"}, {"offscreen"}, {"read"}, {"write"}, {"foreground"},
    {"read", "fallback"} }

InitRender ==
  /\ bottomLayerFile = <<File("image", "png", 5, 4)>>
  /\ topLayerFile = <<KeyForeground>>
  /\ bottomLayerUrl = 1 /\ topLayerUrl = 1
  /\ bottomLayerType = "image" /\ topLayerType = "video"
  /\ bottomLayerDimensions = <<5, 4>> /\ topLayerAspectRatio = <<2, 1>>
  /\ videoTransform = ResetTransform(<<5, 4>>, <<2, 1>>)
  /\ objectUrls = [bottom |-> <<0>>, top |-> <<0>>]
  /\ lastAlert = ""
  /\ isDragging = FALSE /\ isHovering = FALSE /\ dragStartRef = << >>
  /\ defaultPrevented = FALSE
  /\ dragCount = 0
  /\ chromaKeySettings = InitialChromaKeySettings
  /\ topFrame \in RenderFrames
  /\ canvas = << >>
  /\ InitRec /\ browser = Chromium
  /\ InitLoop(TRUE) /\ InitOther(TRUE)

\* An upload in the render scenario: the canvas of an unmounted preview is
\* gone with it.
RenderUpload(file, layer) ==
  /\ handleFileUpload(file, layer)
  /\ canvas' = IF isPreviewReady' THEN canvas ELSE << >>
  /\ UNCHANGED <<chromaKeySettings, topFrame, recVars>>
  /\ UNCHANGED restVars /\ ListenersAfter /\ LoopAfter

NextRender ==
  \/ \E file \in Files, layer \in Layers : RenderUpload(file, layer)
  \/ handleBottomLayerLoad /\ UNCHANGED <<keyVars, recVars>> /\ UNCHANGED restVars /\ ListenersAfter /\ LoopAfter
  \/ handleTopLayerLoad /\ UNCHANGED <<keyVars, recVars>> /\ UNCHANGED restVars /\ ListenersAfter /\ LoopAfter
  \/ /\ \E s \in Sizes : handleSizeChange(s)
     /\ UNCHANGED <<keyVars, recVars>> /\ UNCHANGED restVars /\ ListenersAfter /\ LoopAfter
  \/ \E frame \in RenderFrames : FrameAdvance(frame)
  \/ \E failed \in RenderFailures : renderFrame(failed)

SpecRender == InitRender /\ [][NextRender]_vars

(***************************************************************************)
(* The same preview with React's passive effects as steps of their own.    *)
(* The listener effect and the animation effect of a render run some time  *)
(* after that render is committed: at the latest before React renders      *)
(* again.  Until they have run, the window still calls the handlers of the *)
(* render before, and the frames requested by the loop of the render       *)
(* before still run.                                                       *)
(***************************************************************************)

\* What the render of a loop started now closes over.
ClosureNow ==
  [videoTransform |-> videoTransform, chromaKeySettings |-> chromaKeySettings,
   isRecording |-> isRecording]

\* The loop once the animation effect (part_000:162-272) has run for the
\* render of the current state, as <<pendingFrames, loopClosure>>.
LoopEffect ==
  IF ~previewMounted THEN <<0, << >> >>
  ELSE IF loopClosure # ClosureNow THEN <<1, ClosureNow>>
  ELSE <<pendingFrames, loopClosure>>

\* An effect of the last render has not run yet.
EffectsPending ==
  \/ ListenerEffect(listeners, previewMounted, HandlerClosure) # listeners
  \/ LoopEffect # <<pendingFrames, loopClosure>>

\* The effects of the render of the current state run.
RunEffects ==
  /\ listeners' = ListenerEffect(listeners, previewMounted, HandlerClosure)
  /\ pendingFrames' = LoopEffect[1]
  /\ loopClosure' = LoopEffect[2]
  /\ animationFrame' = (pendingFrames' > 0)
  /\ UNCHANGED <<framesDrawn, consoleErrors>>

\* React runs the pending effects on its own.
FlushEffects ==
  /\ EffectsPending
  /\ RunEffects
  /\ UNCHANGED <<appVars, pointerVars, keyVars, recVars, restVars>>

\* A handler has run.  If it has set a state to a new value React renders
\* again, and runs the effects still pending before it does; the effects of
\* the new render are left pending.  If it has set nothing, nothing runs.
EffectsDeferred ==
  IF <<bottomLayerUrl, topLayerUrl, bottomLayerType, topLayerType,
       bottomLayerDimensions, topLayerAspectRatio, videoTransform, isDragging,
       isHovering, chromaKeySettings, isRecording>>' #
     <<bottomLayerUrl, topLayerUrl, bottomLayerType, topLayerType,
       bottomLayerDimensions, topLayerAspectRatio, videoTransform, isDragging,
       isHovering, chromaKeySettings, isRecording>>
    THEN RunEffects
    ELSE UNCHANGED <<listeners, loopVars>>

\* The window dispatches a mousemove to the listener registered for it.
WindowMouseMove(rect, client) ==
  /\ Len(listeners["mousemove"]) > 0
  /\ handleMouseMoveOf(listeners["mousemove"][1], rect, client)

\* The window dispatches a touchmove to the listener registered for it.
WindowTouchMove(rect, touches) ==
  /\ Len(listeners["touchmove"]) > 0
  /\ handleTouchMoveOf(listeners["touchmove"][1], rect, touches)

\* The window dispatches a mouseup, a touchend or a touchcancel to the
\* listener registered for it.
PointerUpKinds == {"mouseup", "touchend", "touchcancel"}

WindowPointerUp(kind) ==
  /\ Len(listeners[kind]) > 0
  /\ handleDragEndOf(listeners[kind][1])

NextEffects ==
  \/ /\ \E rect \in CanvasRects, c \in ClientPoints : handleMouseDown(rect, c)
     /\ UNCHANGED <<keyVars, recVars, restVars>> /\ EffectsDeferred
  \/ /\ \E rect \in CanvasRects, c \in ClientPoints : WindowMouseMove(rect, c)
     /\ UNCHANGED <<keyVars, recVars, restVars>> /\ EffectsDeferred
  \/ /\ \E rect \in CanvasRects, c \in ClientPoints : WindowTouchMove(rect, <<c>>)
     /\ UNCHANGED <<keyVars, recVars, restVars>> /\ EffectsDeferred
  \/ /\ \E kind \in PointerUpKinds : WindowPointerUp(kind)
     /\ UNCHANGED <<keyVars, recVars, restVars>> /\ EffectsDeferred
  \/ /\ handleFileUpload(KeyForeground, "top")
     /\ canvas' = << >>
     /\ UNCHANGED <<chromaKeySettings, topFrame, recVars, restVars>>
     /\ EffectsDeferred
  \/ handleTopLayerLoad /\ UNCHANGED <<keyVars, recVars, restVars>> /\ EffectsDeferred
  \/ FlushEffects
  \/ render

SpecEffects == InitRender /\ [][NextEffects]_vars

(***************************************************************************)
(* The preview across a change of page: the user leaves the compositor and *)
(* comes back to it, and moves the pointer over the new canvas.            *)
(***************************************************************************)
\* A control of the compositor is used: App renders again and passes the
\* elements the refs now hold.
NavigateSizeChange(s) ==
  /\ currentPage = "bk-ground-swap"
  /\ handleSizeChange(s)
  /\ elementProps' = TRUE
  /\ UNCHANGED <<keyVars, recVars, playVars, genVars, currentPage, reloadDue>>
  /\ ListenersAfter /\ LoopAfter

NextNavigate ==
  \/ \E page \in Pages : handleNavigate(page)
  \/ ReloadBottom
  \/ ReloadTop
  \/ \E s \in WriterSizes : NavigateSizeChange(s)
  \/ /\ \E rect \in CanvasRects, c \in ClientPoints : handleMouseDown(rect, c)
     /\ UNCHANGED <<keyVars, recVars>> /\ UNCHANGED restVars /\ ListenersAfter /\ LoopAfter
  \/ /\ \E rect \in CanvasRects, c \in ClientPoints : handleMouseMove(rect, c)
     /\ UNCHANGED <<keyVars, recVars>> /\ UNCHANGED restVars /\ ListenersAfter /\ LoopAfter
  \/ handleDragEnd /\ UNCHANGED <<keyVars, recVars>> /\ UNCHANGED restVars /\ ListenersAfter /\ LoopAfter

SpecNavigate == InitRender /\ [][NextNavigate]_vars

(***************************************************************************)
(* The generative-video page: the user goes to it, enters a key and a      *)
(* prompt, and the service and the network answer in any order.            *)
(***************************************************************************)
ApiKeys == {"", "key1", "key2"}

Prompts == {"", "a cat"}

NextVideoGen ==
  \/ \E page \in Pages : handleNavigate(page)
  \/ \E key \in ApiKeys : handleApiKeyChange(key)
  \/ \E p \in Prompts : handlePromptChange(p)
  \/ handleGenerate
  \/ \E i \in 1..MaxSubmits, resolved \in BOOLEAN : SubmitSettles(i, resolved)
  \/ \E c \in 1..MaxPolls, answer \in PollAnswers : PollResponds(c, answer)
  \/ \E c \in 1..MaxPolls : TimerFires(c)
  \/ \E c \in 1..MaxPolls, ok \in BOOLEAN : FetchSettles(c, ok)

SpecVideoGen == Init /\ [][NextVideoGen]_vars

---------------------------------------------------------------------------
(* The recording pipeline alone, on a loaded preview. *)

InitRecording ==
  \E bottom \in Files, top \in Files :
    /\ bottomLayerFile = <<bottom>> /\ topLayerFile = <<top>>
    /\ bottomLayerUrl = 1 /\ topLayerUrl = 1
    /\ bottomLayerType = FileTypeOf(bottom) /\ topLayerType = FileTypeOf(top)
    /\ bottomLayerDimensions = <<bottom.w, bottom.h>>
    /\ topLayerAspectRatio = Ratio(top.w, top.h)
    /\ videoTransform = ResetTransform(<<bottom.w, bottom.h>>, Ratio(top.w, top.h))
    /\ objectUrls = [bottom |-> <<0>>, top |-> <<0>>]
    /\ lastAlert = ""
    /\ isDragging = FALSE /\ isHovering = FALSE /\ dragStartRef = << >>
    /\ defaultPrevented = FALSE
    /\ dragCount = 0
    /\ InitKey
    /\ InitRec /\ browser \in Browsers
    /\ InitLoop(TRUE) /\ InitOther(TRUE)

NextRecording ==
  \/ /\ \E ready \in [Layers -> BOOLEAN] : handleStartRecording(ready)
     /\ UNCHANGED restVars /\ ListenersAfter /\ LoopAfter
  \/ handleStopRecording /\ UNCHANGED restVars /\ ListenersAfter /\ LoopAfter
  \/ /\ \E r \in 1..Len(recorders), size \in ChunkSizes : EncoderData(r, size)
     /\ UNCHANGED loopVars /\ UNCHANGED otherVars
  \/ /\ \E r \in 1..Len(recorders), size \in ChunkSizes : EncoderStop(r, size)
     /\ UNCHANGED loopVars /\ UNCHANGED otherVars
  \/ /\ \E r \in 1..Len(recorders) : EncoderError(r)
     /\ UNCHANGED loopVars /\ UNCHANGED otherVars

SpecRecording == InitRecording /\ [][NextRecording]_vars

\* The recording pipeline with the render loop, in a browser that pauses
\* videos on its own.

\* The browser pauses the <video> of a layer (a backgrounded tab, a phone's
\* power saving).
BrowserPause(l) ==
  /\ l \in videoElements
  /\ ~paused[l]
  /\ paused' = [paused EXCEPT ![l] = TRUE]
  /\ UNCHANGED <<appVars, pointerVars, keyVars, recVars, loopVars, forcedPlays,
                 listenerVars, pageVars, genVars>>

\* App.tsx:304-310: a start that gets as far as the recorder plays every
\* video from its beginning.
PlayedByStart ==
  IF isRecording' /\ ~isRecording
    THEN [l \in Layers |-> IF l \in videoElements THEN FALSE ELSE paused[l]]
    ELSE paused

\* The runs of render taken here: nothing throws, or the first draw does.
ResumeFailures == { {}, {"background"} }

InitResume ==
  /\ InitRecording
  /\ bottomLayerFile = <<File("video", "webm", 3, 4)>>
  /\ browser \in {Chromium, [isSafari |-> TRUE, supported |-> {}]}

NextResume ==
  \/ /\ \E ready \in [Layers -> BOOLEAN] : handleStartRecording(ready)
     /\ paused' = PlayedByStart
     /\ UNCHANGED <<forcedPlays, pageVars, genVars>> /\ ListenersAfter /\ LoopAfter
  \/ handleStopRecording /\ UNCHANGED restVars /\ ListenersAfter /\ LoopAfter
  \/ \E l \in Layers : BrowserPause(l)
  \/ \E failed \in ResumeFailures : renderFrame(failed)

SpecResume == InitResume /\ [][NextResume]_vars

---------------------------------------------------------------------------
(* Properties of the chroma key and of the recording pipeline. *)

\* C1: for every pixel colour p, key colour k and tolerance t in 0..255,
\* the filter sets the pixel's alpha to 0 if and only if the Euclidean RGB
\* distance of p and k is strictly less than t (its square less than t * t);
\* a pixel at distance exactly t keeps its alpha, and t = 0 keys nothing.
C1_KeyedIffWithinTolerance ==
  [][render =>
       LET k == chromaKeySettings.color
           t == chromaKeySettings.tolerance
           pixels == 1..(Len(topFrame) \div 4)
           red(i) == topFrame[4 * i - 3]
           green(i) == topFrame[4 * i - 2]
           blue(i) == topFrame[4 * i - 1]
           square(i) == (red(i) - k.r) * (red(i) - k.r)
                        + (green(i) - k.g) * (green(i) - k.g)
                        + (blue(i) - k.b) * (blue(i) - k.b)
       IN /\ Len(canvas'.data) = Len(topFrame)
          /\ \A i \in pixels :
               /\ square(i) < t * t => canvas'.data[4 * i] = 0
               /\ square(i) >= t * t => canvas'.data[4 * i] = topFrame[4 * i]
               /\ t = 0 => canvas'.data[4 * i] = topFrame[4 * i]
  ]_vars

\* At tolerance 5 and key #00FF00 a frame has been rendered whose first
\* pixel is at distance sqrt(18) (keyed) and whose second is at distance
\* exactly 5 (kept).
C1_Witness ==
  /\ chromaKeySettings.tolerance = 5
  /\ chromaKeySettings.color = [r |-> 0, g |-> 255, b |-> 0]
  /\ topFrame = <<3, 252, 0, 128, 3, 251, 0, 255>>
  /\ canvas # << >>
  /\ canvas.data = <<3, 252, 0, 0, 3, 251, 0, 255>>

\* C11: start selects the first candidate of the platform's ordered list
\* (MP4, then WebM/VP9 on the Safari family; WebM/VP9, WebM/VP8, WebM, then
\* MP4 elsewhere) that the probe reports as supported, and the downloaded
\* file has that recorder's type and that container's extension; when only
\* the fallback container MP4 is supported elsewhere, the file is .mp4.
C11_FirstSupportedFormat ==
  LET order == IF browser.isSafari
                 THEN << <<"video/mp4", "mp4">>,
                         <<"video/webm;codecs=vp9,opus", "webm">> >>
                 ELSE << <<"video/webm;codecs=vp9,opus", "webm">>,
                         <<"video/webm;codecs=vp8,vorbis", "webm">>,
                         <<"video/webm", "webm">>,
                         <<"video/mp4", "mp4">> >>
      chosen(i) == /\ order[i][1] \in browser.supported
                   /\ \A j \in 1..(i - 1) : order[j][1] \notin browser.supported
  IN /\ \A r \in 1..Len(recorders) :
          \E i \in 1..Len(order) :
            /\ chosen(i)
            /\ recorders[r].mimeType = order[i][1]
            /\ recorders[r].extension = order[i][2]
     /\ \A d \in 1..Len(downloads) :
          /\ downloads[d].type = recorders[downloads[d].session].mimeType
          /\ downloads[d].download =
               <<"videyo_export", recorders[downloads[d].session].extension>>
          /\ (~browser.isSafari /\ browser.supported = {"video/mp4"}) =>
               downloads[d].download = <<"videyo_export", "mp4">>

\* Where only MP4 is supported outside the Safari family, a file has been
\* downloaded.
C11_Witness ==
  /\ ~browser.isSafari /\ browser.supported = {"video/mp4"}
  /\ Len(downloads) > 0
  /\ downloads[1].type = "video/mp4"

\* C12: when the probe reports no candidate as supported, start shows the
\* 'recording unsupported' message, mutes again every video it unmuted,
\* creates no encoder and leaves the pipeline idle.
C12_UnsupportedStart ==
  [][\A ready \in [Layers -> BOOLEAN] :
       (handleStartRecording(ready) /\ browser.supported = {}) =>
         /\ lastAlert' = "Sorry, your browser doesn't support video recording."
         /\ \A v \in videoElements : muted'[v]
         /\ recorders' = recorders /\ mediaRecorderRef' = mediaRecorderRef
         /\ ~isRecording'
         /\ downloads' = downloads
  ]_vars

\* A start has been refused on a preview with a video layer.
C12_Witness ==
  /\ browser.supported = {}
  /\ lastAlert = RecordingUnsupported
  /\ videoElements # {}
  /\ Len(audioContexts) > 0 /\ recorders = << >>

\* C13: a video whose audio cannot be connected (it is not ready, or
\* connecting throws) is skipped and start goes on: the recorder is made
\* and started; its stream always has the canvas's video track, and has
\* the sink's audio track exactly when some connection succeeded.
C13_AudioOptional ==
  [][\A ready \in [Layers -> BOOLEAN] :
       (handleStartRecording(ready) /\ browser.supported # {}) =>
         LET new == Len(recorders) + 1
             context == Len(audioContexts) + 1
             succeeded == {l \in Layers : sourceOf[l] # context
                                           /\ sourceOf'[l] = context}
         IN /\ Len(recorders') = new
            /\ recorders'[new].state = "recording" /\ isRecording'
            /\ mediaRecorderRef' = new
            /\ "video" \in recorders'[new].stream
            /\ ("audio" \in recorders'[new].stream) <=> (succeeded # {})
            /\ \A l \in Layers :
                 (l \in succeeded) <=>
                   (l \in videoElements /\ ready[l] /\ sourceOf[l] = 0)
  ]_vars

\* A recording runs without audio although the preview has a video layer.
C13_Witness ==
  /\ isRecording /\ mediaRecorderRef # 0
  /\ videoElements # {}
  /\ recorders[mediaRecorderRef].stream = {"video"}

\* C14: in every state of a recording session, each video that start
\* unmuted is connected to the session's audio sink: none is unmuted
\* without its audio being routed into the session's audio graph.
C14_UnmutedIsRouted ==
  (isRecording /\ mediaRecorderRef # 0) =>
    \A v \in recorders[mediaRecorderRef].videoElements :
      ~muted[v] => sourceOf[v] = recorders[mediaRecorderRef].audioContext

\* C15: every object URL made for an uploaded file is released exactly
\* once, when an upload to its layer replaces it or at teardown, whichever
\* comes first: the URL a layer holds has not been released, every other
\* URL has been released once, and after teardown none is unreleased.
C15_ReleasedExactlyOnce ==
  /\ \A k \in 1..Len(objectUrls.bottom) :
       objectUrls.bottom[k] = IF k = bottomLayerUrl THEN 0 ELSE 1
  /\ \A k \in 1..Len(objectUrls.top) :
       objectUrls.top[k] = IF k = topLayerUrl THEN 0 ELSE 1
  /\ bottomLayerUrl \in 0..Len(objectUrls.bottom)
  /\ topLayerUrl \in 0..Len(objectUrls.top)

\* After a replacement on the bottom layer the App has been torn down.
C15_Witness ==
  /\ bottomLayerUrl = 0 /\ topLayerUrl = 0
  /\ Len(objectUrls.bottom) >= 2 /\ Len(objectUrls.top) >= 1
  /\ \A k \in 1..Len(objectUrls.bottom) : objectUrls.bottom[k] = 1

\* C16: once the render loop is torn down (the preview is not mounted: a
\* source or the surface dimensions are missing), no frame is pending, and
\* no frame is drawn while it stays torn down: the count of drawn frames
\* grows only in a step taken with the loop established.
C16_NoFrameAfterTeardown ==
  [][ /\ (~isPreviewReady' => ~animationFrame')
      /\ (~isPreviewReady => framesDrawn' = framesDrawn) ]_vars

\* The loop drew frames and was then torn down by an upload.
C16_Witness ==
  /\ ~isPreviewReady
  /\ framesDrawn > 0
  /\ canvas = << >>
  /\ ~animationFrame

\* C17: a run of render in which getImageData throws draws the top frame
\* unfiltered at the Transform rectangle, logs one error and requests the
\* next frame; a later run in which nothing throws draws the keyed frame
\* again and logs nothing.
C17_ReadFailureFallsBack ==
  [][ /\ (renderFrame({"read"}) /\ topFrame # << >>) =>
           /\ canvas' = [data |-> topFrame, at |-> videoTransform]
           /\ consoleErrors' = consoleErrors + 1
           /\ animationFrame'
      /\ (renderFrame({}) /\ topFrame # << >> /\ consoleErrors > 0) =>
           /\ canvas' = [data |-> ChromaKey(topFrame, chromaKeySettings.color,
                                             chromaKeySettings.tolerance),
                         at |-> videoTransform]
           /\ consoleErrors' = consoleErrors
           /\ animationFrame' ]_vars

\* Two runs of render, one of them logged an error, and the canvas shows
\* the keyed frame, which differs from the unfiltered one.
C17_Witness ==
  /\ framesDrawn = 2
  /\ consoleErrors = 1
  /\ animationFrame
  /\ canvas # << >>
  /\ canvas.at = videoTransform
  /\ canvas.data = ChromaKey(topFrame, chromaKeySettings.color,
                             chromaKeySettings.tolerance)
  /\ canvas.data # topFrame

\* C18: after a run of render in which one canvas call throws (the
\* background draw, the draw into the offscreen canvas, getImageData,
\* putImageData or the draw of the keyed frame), the next frame is requested.
C18_FailureKeepsLoop ==
  [][ \A step \in RenderSteps \ {"fallback"} :
        renderFrame({step}) => animationFrame' ]_vars

\* C19: the pipeline is never in the recording state with an encoder that
\* has failed: the failure ends the session.
C19_FailureEndsSession ==
  ~(isRecording /\ mediaRecorderRef # 0 /\ recorders[mediaRecorderRef].error)

\* C20: an upload of a file whose MIME type starts with neither image/
\* nor video/ shows the rejection message and changes nothing else: no
\* object URL is created or revoked, and both layers' file, URL, type,
\* dimensions and aspect ratio and the Transform stay as they were.
C20_RejectedUploadChangesNothing ==
  [][ \A file \in LoadFiles, layer \in Layers :
        (/\ handleFileUpload(file, layer)
         /\ ~StartsWith(file, "image")
         /\ ~StartsWith(file, "video")) =>
          /\ lastAlert' = UnsupportedFileType
          /\ UNCHANGED <<layerVars, videoTransform, pointerVars>> ]_vars

\* A file was rejected while both layers were loaded and placed.
C20_Witness ==
  /\ lastAlert = UnsupportedFileType
  /\ isPreviewReady
  /\ videoTransform # InitialTransform
  /\ Len(objectUrls.bottom) > 0 /\ Len(objectUrls.top) > 0

\* C27: at most one recorder is recording at any time, and a recorder
\* records only while the pipeline is in the recording state and it is the
\* pipeline's current recorder: start is not available while recording.
C27_OneRecorder ==
  LET recording == {r \in 1..Len(recorders) : recorders[r].state = "recording"}
  IN /\ Cardinality(recording) <= 1
     /\ \A r \in recording : isRecording /\ mediaRecorderRef = r

\* A second session records while the first recorder, stopped, has its
\* last task still to come.
C27_Witness ==
  /\ isRecording
  /\ Len(recorders) = 2
  /\ mediaRecorderRef = 2
  /\ recorders[2].state = "recording"
  /\ recorders[1].state = "inactive"
  /\ ~recorders[1].stopFired

\* C28: a run of the filter leaves the red, green and blue bytes of every
\* pixel as they were; the alpha of a pixel becomes 0 or stays what it was,
\* nothing in between, and it changes only for a pixel whose RGB distance
\* to the key colour is below the tolerance.
C28_OnlyAlphaToZero ==
  [][render =>
       LET k == chromaKeySettings.color
           t == chromaKeySettings.tolerance
           square(i) == (topFrame[4 * i - 3] - k.r) * (topFrame[4 * i - 3] - k.r)
                        + (topFrame[4 * i - 2] - k.g) * (topFrame[4 * i - 2] - k.g)
                        + (topFrame[4 * i - 1] - k.b) * (topFrame[4 * i - 1] - k.b)
       IN \A i \in 1..(Len(topFrame) \div 4) :
            /\ \A c \in 1..3 : canvas'.data[4 * i - c] = topFrame[4 * i - c]
            /\ canvas'.data[4 * i] \in {0, topFrame[4 * i]}
            /\ canvas'.data[4 * i] # topFrame[4 * i] => square(i) < t * t
  ]_vars

\* At tolerance 50 a frame has been rendered whose first pixel, half
\* transparent and far from the key, is as it was and whose second pixel,
\* near the key, has lost its alpha and kept its colour.
C28_Witness ==
  /\ chromaKeySettings.tolerance = 50
  /\ chromaKeySettings.color = [r |-> 0, g |-> 255, b |-> 0]
  /\ topFrame = <<255, 255, 0, 200, 3, 251, 0, 255>>
  /\ canvas # << >>
  /\ canvas.data = <<255, 255, 0, 200, 3, 251, 0, 0>>

\* C9: under every interleaving of start, stop and the encoders' tasks,
\* also a start between a stop and the stopped encoder's last task, each
\* artifact is the concatenation, in emission order, of exactly the
\* non-empty chunks its own session's encoder emitted.
C9_ArtifactOfOwnChunks ==
  \A i \in 1..Len(downloads) :
    LET NonEmpty(c) == c.size > 0 IN
    downloads[i].parts = SelectSeq(recorders[downloads[i].session].emitted, NonEmpty)

\* C10: whenever the pipeline is idle after a stop, every stopped session
\* has emitted its artifact, the sources it unmuted are muted again and
\* its audio graph is released.
C10_IdleAfterFinalization ==
  ~isRecording =>
    \A r \in 1..Len(recorders) :
      recorders[r].state = "inactive" =>
        /\ \E i \in 1..Len(downloads) : downloads[i].session = r
        /\ \A v \in recorders[r].videoElements : muted[v]
        /\ audioContexts[recorders[r].audioContext] = "closed"

---------------------------------------------------------------------------
(* Properties of the geometry: initial placement and size changes.        *)
(* "X is the nearest integer to p / q, a tie going up" (Math.round) is     *)
(* written 2p - q < 2qX /\ 2qX <= 2p + q, for q > 0.                       *)

\* C2: when both the surface dimensions W x H and the foreground aspect
\* ratio a are known after loading, the Transform is size = 100,
\* width = round(0.5 W), height = round(0.5 W / a), x = round((W - 0.5 W) / 2),
\* y = round((H - 0.5 W / a) / 2): the height is the nearest integer to
\* 0.5 W / a and the rectangle is centred on the surface within one pixel
\* on each axis.
C2_InitialTransform ==
  (bottomLayerDimensions # << >> /\ topLayerAspectRatio # << >>) =>
    LET W == bottomLayerDimensions[1]
        H == bottomLayerDimensions[2]
        n == topLayerAspectRatio[1]
        d == topLayerAspectRatio[2]
        t == videoTransform
        Nearest(X, p, q) == 2 * p - q < 2 * q * X /\ 2 * q * X <= 2 * p + q
    IN /\ t.size = 100
       /\ Nearest(t.width, W, 2)
       /\ Nearest(t.height, W * d, 2 * n)
       /\ t.x % 2 = 0 /\ Nearest(t.x \div 2, W, 4)
       /\ t.y % 2 = 0 /\ Nearest(t.y \div 2, 2 * H * n - W * d, 4 * n)
       /\ Abs(t.x - (W - t.width)) <= 2
       /\ Abs(t.y - (H - t.height)) <= 2

\* A 5 x 4 surface under a 3 : 4 foreground: 2.5 rounds up to width 3 and
\* 3.33 rounds down to height 3.
C2_Witness ==
  /\ bottomLayerDimensions = <<5, 4>> /\ topLayerAspectRatio = <<3, 4>>
  /\ videoTransform.width = 3 /\ videoTransform.height = 3
  /\ videoTransform.x = 2

\* C3 as stated: an 800 x 600 background and a 400 x 400 foreground give
\* the initial Transform {x: 200, y: 175, width: 400, height: 400, size: 100}.
C3_Stated ==
  ( /\ bottomLayerDimensions = <<800, 600>>
    /\ topLayerFile = <<Foreground400x400>>
    /\ topLayerAspectRatio # << >> ) =>
    videoTransform = [x |-> 2 * 200, y |-> 2 * 175, width |-> 400,
                      height |-> 400, size |-> 100]

\* C3: an 800 x 600 background and a 400 x 400 foreground give the initial
\* Transform {x: 200, y: 100, width: 400, height: 400, size: 100}: the
\* vertical offset is (600 - 400) / 2 = 100.
C3_Example ==
  ( /\ bottomLayerDimensions = <<800, 600>>
    /\ topLayerFile = <<Foreground400x400>>
    /\ topLayerAspectRatio # << >> ) =>
    videoTransform = [x |-> 2 * 200, y |-> 2 * 100, width |-> 400,
                      height |-> 400, size |-> 100]

C3_Witness ==
  /\ bottomLayerFile = <<Background800x600>>
  /\ bottomLayerDimensions = <<800, 600>>
  /\ topLayerFile = <<Foreground400x400>>
  /\ topLayerAspectRatio = <<1, 1>>
  /\ videoTransform.size = 100

C5_SizeUpdate ==
  [][\A s \in Sizes :
       handleSizeChange(s) =>
         LET W == bottomLayerDimensions[1]
             n == topLayerAspectRatio[1]
             d == topLayerAspectRatio[2]
             Nearest(X, p, q) == 2 * p - q < 2 * q * X /\ 2 * q * X <= 2 * p + q
             both(v) == [f \in {"size", "x"} |-> IF f = "size" THEN s ELSE v]
         IN /\ videoTransform'.size = s
            /\ Nearest(videoTransform'.width, W * s, 200)
            /\ Nearest(videoTransform'.height, W * s * d, 200 * n)
            /\ videoTransform'.x = videoTransform.x
            /\ videoTransform'.y = videoTransform.y
            /\ \A v \in {-6, 8} :
                 TransformChange(both(v)) = [videoTransform' EXCEPT !.x = v]
  ]_vars

\* A negative size has been applied: the width is negative.
C5_Witness ==
  /\ bottomLayerDimensions # << >> /\ topLayerAspectRatio # << >>
  /\ videoTransform.size = -50
  /\ videoTransform.width < 0 /\ videoTransform.height < 0

\* C6 as stated: a size change to s gives the width and height of the
\* initial Transform for the same W and a, scaled by s / 100.
C6_Stated ==
  [][\A s \in Sizes :
       handleSizeChange(s) =>
         LET initial == ResetTransform(bottomLayerDimensions, topLayerAspectRatio)
         IN /\ 100 * videoTransform'.width = s * initial.width
            /\ 100 * videoTransform'.height = s * initial.height
  ]_vars

\* C6: a size change to s gives the unrounded baseline (0.5 W, 0.5 W / a)
\* scaled by s / 100 and then rounded: for s = 100 exactly the width and
\* height of the initial Transform for the same W and a, and for every s
\* within 1/2 + |s| / 200 of the initial width and height scaled by s / 100.
C6_ScaledBaseline ==
  [][\A s \in Sizes :
       handleSizeChange(s) =>
         LET initial == ResetTransform(bottomLayerDimensions, topLayerAspectRatio)
         IN /\ s = 100 => /\ videoTransform'.width = initial.width
                           /\ videoTransform'.height = initial.height
            /\ 2 * Abs(100 * videoTransform'.width - s * initial.width)
                 <= 100 + Abs(s)
            /\ 2 * Abs(100 * videoTransform'.height - s * initial.height)
                 <= 100 + Abs(s)
  ]_vars

\* W = 5 at s = 250: the width is round(6.25) = 6, not 3 * 2.5.
C6_Witness ==
  /\ bottomLayerDimensions # << >> /\ topLayerAspectRatio # << >>
  /\ bottomLayerDimensions[1] = 5
  /\ videoTransform.size = 250 /\ videoTransform.width = 6

---------------------------------------------------------------------------
(* Properties of the pointer controller. *)

\* C7: a drag start at p inside the rectangle stores the anchor (p, x, y);
\* every move to q while dragging sets x = round(x0 + (q.x - p.x)) and
\* y = round(y0 + (q.y - p.y)) from the anchor, not from the current
\* position, and leaves width, height and size alone.  With the anchor
\* start (100, 100), initial (20, 30), a move to (130, 115) gives (50, 45).
C7_DragMath ==
  [][\A rect \in PointerRects, c \in PointerPoints :
       LET pos == getCanvasRelativePos(bottomLayerDimensions, rect, c)
           Nearest(X, p, q) == 2 * p - q < 2 * q * X /\ 2 * q * X <= 2 * p + q
       IN /\ (handleMouseDown(rect, c) /\ ~isDragging /\ isDragging') =>
               /\ dragStartRef' = <<pos[1], pos[2], videoTransform.x, videoTransform.y>>
               /\ videoTransform' = videoTransform
          /\ (handleMouseMove(rect, c) /\ isDragging /\ pos # << >>) =>
               /\ videoTransform'.x % 2 = 0
               /\ Nearest(videoTransform'.x \div 2,
                          dragStartRef[3] + pos[1] - dragStartRef[1], 2)
               /\ videoTransform'.y % 2 = 0
               /\ Nearest(videoTransform'.y \div 2,
                          dragStartRef[4] + pos[2] - dragStartRef[2], 2)
               /\ videoTransform'.width = videoTransform.width
               /\ videoTransform'.height = videoTransform.height
               /\ videoTransform'.size = videoTransform.size
               /\ dragStartRef' = dragStartRef
               /\ (dragStartRef = <<2 * 100, 2 * 100, 2 * 20, 2 * 30>>
                     /\ pos = <<2 * 130, 2 * 115>>) =>
                    (videoTransform'.x = 2 * 50 /\ videoTransform'.y = 2 * 45)
  ]_vars

\* The example's drag has arrived at (50, 45).
C7_Witness ==
  /\ isDragging
  /\ dragStartRef = <<2 * 100, 2 * 100, 2 * 20, 2 * 30>>
  /\ videoTransform.x = 2 * 50 /\ videoTransform.y = 2 * 45

\* C8: a point p is inside the foreground rectangle exactly when
\* x <= p.x <= x + width and y <= p.y <= y + height, edges included: that
\* decides hovering and whether a pointer-down starts a drag.  For the
\* rectangle {x: 10, y: 10, width: 50, height: 50}, (60, 60) is inside and
\* (61, 10) is outside.
C8_HitTest ==
  [][\A rect \in PointerRects, c \in PointerPoints :
       LET pos == getCanvasRelativePos(bottomLayerDimensions, rect, c)
           t == videoTransform
           inside == /\ t.x <= pos[1] /\ pos[1] <= t.x + 2 * t.width
                     /\ t.y <= pos[2] /\ pos[2] <= t.y + 2 * t.height
           example == /\ t.x = 2 * 10 /\ t.y = 2 * 10
                      /\ t.width = 50 /\ t.height = 50
       IN pos # << >> =>
            /\ (handleMouseMove(rect, c) /\ ~isDragging) =>
                 /\ isHovering' = inside
                 /\ (example /\ pos = <<2 * 60, 2 * 60>>) => isHovering'
                 /\ (example /\ pos = <<2 * 61, 2 * 10>>) => ~isHovering'
            /\ (handleMouseDown(rect, c) /\ ~isDragging) =>
                 /\ isDragging' = inside
                 /\ (example /\ pos = <<2 * 61, 2 * 10>>) => ~isDragging'
  ]_vars

\* A drag has started at the far corner (60, 60) of the example rectangle.
C8_Witness ==
  /\ videoTransform = [x |-> 2 * 10, y |-> 2 * 10, width |-> 50,
                       height |-> 50, size |-> 100]
  /\ isDragging
  /\ dragStartRef = <<2 * 60, 2 * 60, 2 * 10, 2 * 10>>



\* C25: from every reachable Transform, handleTransformChange with an
\* empty partial gives a Transform equal to the current one in x, y, width,
\* height and size.
C25_EmptyUpdate ==
  [][ handleTransformChange(EmptyPartial) =>
        /\ videoTransform'.x = videoTransform.x
        /\ videoTransform'.y = videoTransform.y
        /\ videoTransform'.width = videoTransform.width
        /\ videoTransform'.height = videoTransform.height
        /\ videoTransform'.size = videoTransform.size
        /\ DOMAIN videoTransform' = DOMAIN videoTransform ]_vars

\* A Transform that was resized and moved, on which updates apply.
C25_Witness ==
  /\ controlsEnabled
  /\ videoTransform.size = 250
  /\ videoTransform.x = 4
  /\ videoTransform.y = -2

C29_AnchorIffDragging ==
  isDragging <=> dragStartRef # << >>

\* A drag has started, moved the foreground and ended.
C29_Witness ==
  /\ dragCount = 1
  /\ ~isDragging
  /\ dragStartRef = << >>
  /\ isPreviewReady

\* C30: a mouse-down, or a touch-start with at least one touch, whose
\* position (of the first touch) maps to a valid surface position inside
\* the Transform rectangle sets isDragging, records the anchor and
\* prevents the default; a pointer-down outside the rectangle, with no
\* touches, or on a canvas of zero rendered width or height leaves
\* isDragging and the anchor as they were and prevents no default.
\* isDragging becomes true in no other step.
C30_DragOnlyFromInside ==
  [][ LET Down(rect, client) ==
            LET valid  == rect.width # 0 /\ rect.height # 0
                pos    == getCanvasRelativePos(bottomLayerDimensions, rect, client)
                inside == /\ valid
                          /\ pos[1] >= videoTransform.x
                          /\ pos[1] <= videoTransform.x + 2 * videoTransform.width
                          /\ pos[2] >= videoTransform.y
                          /\ pos[2] <= videoTransform.y + 2 * videoTransform.height
            IN IF inside
                 THEN /\ isDragging'
                      /\ dragStartRef' = <<pos[1], pos[2], videoTransform.x,
                                           videoTransform.y>>
                      /\ defaultPrevented'
                 ELSE /\ UNCHANGED <<isDragging, dragStartRef>>
                      /\ ~defaultPrevented'
      IN /\ \A rect \in PointerRects, client \in PointerPoints :
              handleMouseDown(rect, client) => Down(rect, client)
         /\ \A rect \in PointerRects, touches \in PointerTouchLists :
              handleTouchStart(rect, touches) =>
                IF Len(touches) = 0
                  THEN /\ UNCHANGED <<isDragging, dragStartRef>>
                       /\ ~defaultPrevented'
                  ELSE Down(rect, touches[1])
         /\ (isDragging' /\ ~isDragging) =>
              \/ \E rect \in PointerRects, client \in PointerPoints :
                   handleMouseDown(rect, client)
              \/ \E rect \in PointerRects, touches \in PointerTouchLists :
                   Len(touches) > 0 /\ handleTouchStart(rect, touches) ]_vars

\* A pointer-down inside the rectangle has just started a drag.
C30_Witness ==
  /\ isDragging
  /\ defaultPrevented
  /\ dragStartRef # << >>
  /\ dragStartRef[3] = videoTransform.x
  /\ dragStartRef[4] = videoTransform.y
---------------------------------------------------------------------------
(* Properties of the percent controls.  Percents are in tenths; offsets    *)
(* are in half-pixels, so offset / movableRange * 100 percent is           *)
(* 500 * offset / movableRange tenths.                                      *)

C22_PercentEntry ==
  [][ \A name \in PercentNames, value \in PercentInputs :
        handlePercentageInputChange(name, value) =>
          IF value = << >>
            THEN videoTransform' = videoTransform
            ELSE
              LET axis    == IF name = "lr_pos_percent" THEN 1 ELSE 2
                  extent  == IF axis = 1 THEN videoTransform.width
                                         ELSE videoTransform.height
                  movable == bottomLayerDimensions[axis] - extent
                  offset  == IF axis = 1 THEN videoTransform'.x ELSE videoTransform'.y
                  p       == value[1]
              IN /\ movable <= 0 => offset = movable
                 /\ movable > 0 =>
                      /\ offset % 2 = 0
                      /\ 2 * p * movable - 1000 < 2000 * (offset \div 2)
                      /\ 2000 * (offset \div 2) <= 2 * p * movable + 1000
                 /\ videoTransform' =
                      IF axis = 1 THEN [videoTransform EXCEPT !.x = offset]
                                  ELSE [videoTransform EXCEPT !.y = offset] ]_vars

\* An entry above 100 has placed the foreground to the right of the
\* movable range.
C22_Witness ==
  /\ controlsEnabled
  /\ bottomLayerDimensions[1] - videoTransform.width > 0
  /\ videoTransform.x > 2 * (bottomLayerDimensions[1] - videoTransform.width)
  /\ videoTransform.size = 100

\* C23 as stated: on an axis with a positive movable range, the offset of
\* every reachable Transform, shown as a percent and entered again, comes
\* back within 1 pixel; with a movable range that is not positive the
\* percent is 50 and entering 50 gives movableRange / 2.
C23_Stated ==
  controlsEnabled =>
    \A axis \in {1, 2} :
      LET offset  == IF axis = 1 THEN videoTransform.x ELSE videoTransform.y
          extent  == IF axis = 1 THEN videoTransform.width ELSE videoTransform.height
          movable == bottomLayerDimensions[axis] - extent
          percent == PixelsToPercent(offset, movable)
          back    == PercentToPixels(percent, movable)
      IN /\ movable > 0 => Abs(back - offset) <= 2
         /\ movable <= 0 => (percent = 500 /\ back = movable)

\* C23: on an axis with a positive movable range, an offset inside the
\* range (0 <= offset <= movableRange), shown as a percent to one decimal
\* and entered again, comes back within 1/2 + movableRange / 2000 pixels,
\* which is within 1 pixel for whole offsets and ranges up to 1000; an
\* offset outside the range comes back as the nearer end of the range.
\* With a movable range that is not positive the percent is 50 and
\* entering 50 gives movableRange / 2.
C23_RoundTripInsideRange ==
  controlsEnabled =>
    \A axis \in {1, 2} :
      LET offset  == IF axis = 1 THEN videoTransform.x ELSE videoTransform.y
          extent  == IF axis = 1 THEN videoTransform.width ELSE videoTransform.height
          movable == bottomLayerDimensions[axis] - extent
          percent == PixelsToPercent(offset, movable)
          back    == PercentToPixels(percent, movable)
      IN /\ (movable > 0 /\ 0 <= offset /\ offset <= 2 * movable) =>
              1000 * Abs(back - offset) <= 1000 + movable
         /\ (movable > 0 /\ offset < 0) => back = 0
         /\ (movable > 0 /\ offset > 2 * movable) => back = 2 * movable
         /\ movable <= 0 => (percent = 500 /\ back = movable)

\* An offset strictly inside a positive movable range whose percent is not
\* a whole number of tenths, so that the shown value is rounded.
C23_Witness ==
  /\ controlsEnabled
  /\ bottomLayerDimensions[1] - videoTransform.width > 0
  /\ videoTransform.x > 0
  /\ videoTransform.x < 2 * (bottomLayerDimensions[1] - videoTransform.width)
  /\ (500 * videoTransform.x) % (bottomLayerDimensions[1] - videoTransform.width) # 0

\* C24: in every reachable state the Transform's x, y, width and height
\* are integers.  (x and y are in half-pixels: whole pixels are the even
\* values.  The model holds width and height in whole pixels, as the code
\* stores them only from Math.round.)
C24_WholePixels ==
  /\ videoTransform.x % 2 = 0
  /\ videoTransform.y % 2 = 0
  /\ videoTransform.width \in Int
  /\ videoTransform.height \in Int
\* C36: every audio graph start constructs is released on every path out
\* of start: whenever the pipeline is idle and no recorder has its
\* finalization (its stop event) outstanding, every AudioContext made so far
\* is closed, whether start went on to record or gave up because no
\* encoding format is supported.
C36_GraphReleased ==
  (~isRecording /\ \A r \in 1..Len(recorders) : recorders[r].stopFired)
    => \A a \in 1..Len(audioContexts) : audioContexts[a] = "closed"

---------------------------------------------------------------------------
(* Properties of the render loop's forced play. *)

\* C34: a run of render made while a recording is active calls play() on
\* every layer's <video> that is paused, whether or not the drawing that
\* follows throws, so that no video is paused after the run; a run made
\* while no recording is active calls play() on nothing and leaves every
\* paused flag as it was.  Nothing but a run of render made while recording
\* adds a forced play.
C34_ForcedPlayOnlyWhileRecording ==
  [][ /\ \A failed \in ResumeFailures :
           renderFrame(failed) =>
             IF isRecording
               THEN /\ \A l \in videoElements : ~paused'[l]
                    /\ forcedPlays' = forcedPlays
                         + Cardinality({l \in videoElements : paused[l]})
               ELSE /\ paused' = paused
                    /\ forcedPlays' = forcedPlays
      /\ (forcedPlays' # forcedPlays =>
            isRecording /\ \E failed \in ResumeFailures : renderFrame(failed))
    ]_vars

\* During a recording the loop has found both videos paused and has asked
\* both to play.
C34_Witness ==
  /\ isRecording
  /\ forcedPlays = 2
  /\ \A l \in Layers : ~paused[l]
  /\ videoElements = Layers

---------------------------------------------------------------------------
(* Properties of the Transform's writers. *)

\* C38: no writer of the Transform undoes what another has written.  A size
\* update, also one made during a drag, leaves x and y as the last drag move
\* (or any other writer) set them; a drag move by mouse or touch and a
\* percent entry for either axis leave width, height and size as the last
\* size update set them, and the percent entry leaves the other axis alone.
C38_NoLostUpdate ==
  [][ LET keepsPosition == /\ videoTransform'.x = videoTransform.x
                           /\ videoTransform'.y = videoTransform.y
          keepsSize == /\ videoTransform'.width = videoTransform.width
                       /\ videoTransform'.height = videoTransform.height
                       /\ videoTransform'.size = videoTransform.size
      IN /\ \A s \in WriterSizes : handleSizeChange(s) => keepsPosition
         /\ \A rect \in PointerRects, client \in WriterPoints :
              /\ handleMouseMove(rect, client) => keepsSize
              /\ handleTouchMove(rect, <<client>>) => keepsSize
         /\ \A value \in WriterPercents :
              /\ handlePercentageInputChange("lr_pos_percent", value) =>
                   keepsSize /\ videoTransform'.y = videoTransform.y
              /\ handlePercentageInputChange("ud_pos_percent", value) =>
                   keepsSize /\ videoTransform'.x = videoTransform.x ]_vars

\* During a drag that has moved the foreground the size was set to -50 (a
\* drag cannot start at that size: the rectangle is empty), and a further
\* drag move has then moved the foreground again.
C38_Witness ==
  /\ isDragging
  /\ videoTransform.size = -50
  /\ videoTransform.x # dragStartRef[3]
  /\ videoTransform.width < 0

---------------------------------------------------------------------------
(* Properties of the render loop's scheduling. *)

\* C37: at every moment at most one run of render is due, and a step in
\* which the animation effect starts the loop anew (the sources, the
\* surface dimensions, the Transform, the settings or the recording flag
\* changed) leaves exactly one: the frame the previous loop had requested is
\* cancelled before the new loop's first run.
C37_OnePendingFrame ==
  [][ /\ pendingFrames' <= 1
      /\ (LoopRestarts => pendingFrames' = 1 /\ animationFrame') ]_vars

\* The loop has drawn, and was then started anew by a size change while its
\* frame was pending.
C37_Witness ==
  /\ framesDrawn > 0
  /\ videoTransform.size = 250
  /\ loopClosure # << >> /\ loopClosure.videoTransform.size = 250
  /\ pendingFrames = 1

---------------------------------------------------------------------------
(* Properties of the preview's effects. *)

\* C31: whenever the controller is dragging, a mouseup, touchend or
\* touchcancel the window dispatches ends the drag and clears the anchor,
\* also when the event arrives before the listeners have been registered
\* anew for the render that started the drag.
C31_PointerUpEndsDrag ==
  [][ \A kind \in PointerUpKinds :
        (isDragging /\ WindowPointerUp(kind)) =>
          (~isDragging' /\ dragStartRef' = << >>) ]_vars

\* C33: in every reachable state the window holds at most one listener of
\* PreviewCanvas per event kind, all of them made by the same render; each
\* run of the listener effect removes what the run before had added, and
\* once the effects of the unmounting have run none is left.
C33_OneListenerPerKind ==
  /\ \A k \in EventKinds :
       /\ Len(listeners[k]) <= 1
       /\ Len(listeners[k]) = Len(listeners["mouseup"])
       /\ Len(listeners[k]) = 1 => listeners[k][1] = listeners["mouseup"][1]
  /\ (~previewMounted /\ ~EffectsPending) => listeners = NoListeners

\* The listeners were registered anew during a drag, and PreviewCanvas has
\* then been unmounted and its effects have been cleaned up.
C33_Witness ==
  /\ dragCount = 1
  /\ ~previewMounted
  /\ ~EffectsPending
  /\ listeners = NoListeners

\* C35: every run of render that draws the top layer draws it at the
\* current Transform, all four fields of it, keyed with the colour and the
\* tolerance of the current settings.
C35_FrameFromLatest ==
  [][ (render /\ RenderOutcome({}) = "keyed") =>
        /\ canvas'.at = videoTransform
        /\ canvas'.data = ChromaKey(topFrame, chromaKeySettings.color,
                                    chromaKeySettings.tolerance) ]_vars


---------------------------------------------------------------------------
(* Properties of the hover affordance. *)

\* C32, as the program has it: while not dragging, a pointer-move sets the
\* hover affordance exactly if PreviewCanvas was given a foreground element
\* and the position is a valid surface position inside the Transform
\* rectangle, and clears it otherwise; such a move leaves the drag state,
\* the anchor and the Transform as they were.
C32_HoverAsksForElement ==
  [][ \A rect \in CanvasRects, client \in ClientPoints :
        (~isDragging /\ handleMouseMove(rect, client)) =>
          LET valid  == rect.width # 0 /\ rect.height # 0
              pos    == getCanvasRelativePos(bottomLayerDimensions, rect, client)
              inside == /\ valid
                        /\ pos[1] >= videoTransform.x
                        /\ pos[1] <= videoTransform.x + 2 * videoTransform.width
                        /\ pos[2] >= videoTransform.y
                        /\ pos[2] <= videoTransform.y + 2 * videoTransform.height
          IN /\ isHovering' = (elementProps /\ inside)
             /\ UNCHANGED <<isDragging, dragStartRef, videoTransform>> ]_vars

\* The user has come back to the compositor, the background has loaded
\* again, and a pointer-move over the rectangle has set the hover.
C32_Witness ==
  /\ currentPage = "bk-ground-swap"
  /\ reloadDue = {"top"}
  /\ isHovering /\ ~isDragging

\* C32, as stated: while not dragging, a pointer-move inside the Transform
\* rectangle sets the hover affordance whether or not a foreground source
\* is there, a pointer-move outside clears it, and neither alters the drag
\* state or the Transform.
C32_HoverWithoutSource ==
  [][ \A rect \in CanvasRects, client \in ClientPoints :
        (~isDragging /\ handleMouseMove(rect, client)) =>
          LET valid  == rect.width # 0 /\ rect.height # 0
              pos    == getCanvasRelativePos(bottomLayerDimensions, rect, client)
              inside == /\ valid
                        /\ pos[1] >= videoTransform.x
                        /\ pos[1] <= videoTransform.x + 2 * videoTransform.width
                        /\ pos[2] >= videoTransform.y
                        /\ pos[2] <= videoTransform.y + 2 * videoTransform.height
          IN /\ isHovering' = inside
             /\ UNCHANGED <<isDragging, dragStartRef, videoTransform>> ]_vars

---------------------------------------------------------------------------
(* Properties of the generative-video page. *)

\* C39: at most one poll chain is live at any time; a step of a cancelled
\* chain (the answer of the service, the timeout, the end of the download)
\* leaves the status, the error and the generated video URL as they were;
\* and the status becomes 'success' or 'error' only in a step of the
\* submit, in a step of a chain that is not cancelled, or when the polling
\* effect finds the key missing.
C39_CancelledChainSilent ==
  [][ LET ChainStep(c) ==
            \/ \E answer \in PollAnswers : PollResponds(c, answer)
            \/ TimerFires(c)
            \/ \E ok \in BOOLEAN : FetchSettles(c, ok)
      IN /\ Cardinality(LiveChains(pollChains')) <= 1
         /\ \A c \in DOMAIN pollChains :
              (pollChains[c].isCancelled /\ ChainStep(c)) =>
                UNCHANGED <<status, error, generatedVideoUrl>>
         /\ (status' \in {"success", "error"} /\ status' # status) =>
              \/ \E i \in DOMAIN submits, resolved \in BOOLEAN :
                   SubmitSettles(i, resolved)
              \/ \E c \in DOMAIN pollChains :
                   ~pollChains[c].isCancelled /\ ChainStep(c)
              \/ \E key \in ApiKeys : handleApiKeyChange(key) ]_vars

=============================================================================
